---- MODULE Spec2Model ----
(***************************************************************************)
(* Model of the cloudjack core: the client cache (cloud/base/client_cache), *)
(* the configuration models (cloud/base/config) and the universal factory  *)
(* (cloud/factory) with the provider registries it dispatches to.          *)
(***************************************************************************)
EXTENDS Integers, Sequences, FiniteSets, TLC

(***************************************************************************)
(* Bounds of the model.                                                    *)
(***************************************************************************)
NThreads == 2      \* threads calling into the shared ClientCache
MaxCalls == 2      \* get_or_create calls started in one behaviour
MaxClears == 1     \* clear() calls in one behaviour
MaxFactoryCalls == 2   \* universal_factory calls in one behaviour
MaxAttempts == 3   \* largest max_attempts given to retry

Threads == 1..NThreads

(***************************************************************************)
(* Python values.  None and str share one record shape so that TLC can     *)
(* compare them; a dict is a sequence of items in insertion order.         *)
(***************************************************************************)
None == [t |-> "none", s |-> "", items |-> <<>>]
Str(x) == [t |-> "str", s |-> x, items |-> <<>>]
Dict(d) == [t |-> "dict", s |-> "", items |-> d]
Obj(x) == [t |-> "obj", s |-> x, items |-> <<>>]
Item(k, v) == [k |-> k, v |-> v]

\* bool(v), as `not values.get(field)` and `a or b` use it
Truthy(v) ==
    \/ v.t = "str" /\ v.s # ""
    \/ v.t = "obj"
    \/ v.t = "dict" /\ v.items # <<>>

\* d.get(k): the value under k, None when k is not a key of d
Get(d, k) ==
    IF \E i \in 1..Len(d) : d[i].k = k
    THEN d[CHOOSE i \in 1..Len(d) : d[i].k = k].v
    ELSE None

\* d after d[k] = v: replaced in place, appended when k is new
SetItem(d, k, v) ==
    IF \E i \in 1..Len(d) : d[i].k = k
    THEN [i \in 1..Len(d) |-> IF d[i].k = k THEN Item(k, v) ELSE d[i]]
    ELSE Append(d, Item(k, v))

DictKeys(d) == { d[i].k : i \in 1..Len(d) }

\* the mapping a dict denotes: its items without their insertion order,
\* nested dicts included
RECURSIVE Mapping(_)
Mapping(d) ==
    { [k |-> d[i].k,
       v |-> IF d[i].v.t = "dict" THEN [t |-> "dict", m |-> Mapping(d[i].v.items)]
                                  ELSE [t |-> d[i].v.t, m |-> {d[i].v.s}]]
      : i \in 1..Len(d) }

(***************************************************************************)
(* json.dumps(..., sort_keys=True): the text as a sequence of tokens.      *)
(* KeyOrder is str.__lt__ on the key names the model uses.                 *)
(***************************************************************************)
KeyOrder == <<"a", "b", "config", "opts", "provider", "region", "service", "zone">>

Rank(k) == CHOOSE i \in 1..Len(KeyOrder) : KeyOrder[i] = k

\* sorted(d.items()) by key: selection of the smallest remaining key
RECURSIVE SortItems(_)
SortItems(d) ==
    IF d = <<>> THEN <<>>
    ELSE LET m == CHOOSE i \in 1..Len(d) :
                    \A j \in 1..Len(d) : Rank(d[i].k) <= Rank(d[j].k)
             rest == [j \in 1..(Len(d) - 1) |-> IF j < m THEN d[j] ELSE d[j + 1]]
         IN  <<d[m]>> \o SortItems(rest)

\* the items in insertion order, as json.dumps without sort_keys writes them
UnsortedItems(d) == d

\* sort_keys=True: every dict is written with its keys sorted
ItemsForDump(d) == SortItems(d)

RECURSIVE DumpsValue(_)
RECURSIVE DumpsItems(_)
DumpsValue(v) ==
    IF v.t = "none" THEN <<"null">>
    ELSE IF v.t \in {"str", "obj"} THEN <<"\"", v.s, "\"">>   \* default=str for objects
    ELSE <<"{">> \o DumpsItems(ItemsForDump(v.items)) \o <<"}">>

DumpsItems(d) ==
    IF d = <<>> THEN <<>>
    ELSE <<"\"", d[1].k, "\"", ":">> \o DumpsValue(d[1].v)
         \o (IF Len(d) > 1 THEN <<",">> ELSE <<>>) \o DumpsItems(Tail(d))

\* hashlib.sha256(text).hexdigest(), taken as collision free
Sha256(text) == [sha256 |-> text]

MakeKey(cloud_provider, service_name, config) ==
    Sha256(DumpsValue(Dict(<<Item("provider", Str(cloud_provider)),
                             Item("service", Str(service_name)),
                             Item("config", Dict(config))>>)))


(***************************************************************************)
(* cloud/base/config.py: the provider config models and validate_config.   *)
(* The process environment is a function from variable names to None       *)
(* (unset) or a string.                                                    *)
(***************************************************************************)
EnvVars == {"AWS_ACCESS_KEY_ID", "AWS_SECRET_ACCESS_KEY", "AWS_DEFAULT_REGION",
            "GOOGLE_CLOUD_PROJECT", "GCLOUD_PROJECT",
            "GOOGLE_APPLICATION_CREDENTIALS"}

\* Path(p).exists() for the paths the model uses
ExistingFiles == {"/key.json"}

\* an existence test that every path passes
PathExistsAlways(path) == TRUE

PathExists(path) == path \in ExistingFiles

AWSFields == <<"aws_access_key_id", "aws_secret_access_key", "region_name">>
GCPFields == <<"project_id", "credentials", "credentials_path">>

\* env_map of AWSConfig.resolve_from_env
AWSEnvMap(field) ==
    CASE field = "aws_access_key_id" -> "AWS_ACCESS_KEY_ID"
      [] field = "aws_secret_access_key" -> "AWS_SECRET_ACCESS_KEY"
      [] field = "region_name" -> "AWS_DEFAULT_REGION"

\* one pass of the loop: if not values.get(field): values[field] = os.environ.get(env_var)
RECURSIVE AWSResolveLoop(_, _, _)
AWSResolveLoop(values, e, i) ==
    IF i > Len(AWSFields) THEN values
    ELSE LET field == AWSFields[i]
         IN  AWSResolveLoop(IF ~Truthy(Get(values, field))
                            THEN SetItem(values, field, e[AWSEnvMap(field)])
                            ELSE values,
                            e, i + 1)

\* the environment consulted first: a set variable replaces the explicit value
AWSResolveEnvFirst(values, e) ==
    [i \in 1..Len(AWSFields) |->
        Item(AWSFields[i],
             IF Truthy(e[AWSEnvMap(AWSFields[i])]) THEN e[AWSEnvMap(AWSFields[i])]
             ELSE Get(values, AWSFields[i]))]
    \o SelectSeq(values, LAMBDA it : it.k \notin {AWSFields[i] : i \in 1..Len(AWSFields)})

\* lines 36-44
AWSResolveFromEnv(values, e) == AWSResolveLoop(values, e, 1)

\* the two variables consulted in the other order
ProjectFromEnvSwapped(e) ==
    IF Truthy(e["GCLOUD_PROJECT"]) THEN e["GCLOUD_PROJECT"] ELSE e["GOOGLE_CLOUD_PROJECT"]

\* os.environ.get("GOOGLE_CLOUD_PROJECT") or os.environ.get("GCLOUD_PROJECT")
ProjectFromEnv(e) ==
    IF Truthy(e["GOOGLE_CLOUD_PROJECT"]) THEN e["GOOGLE_CLOUD_PROJECT"] ELSE e["GCLOUD_PROJECT"]

GCPResolveFromEnv(values, e) ==
    LET v1 == IF ~Truthy(Get(values, "project_id"))
              THEN SetItem(values, "project_id", ProjectFromEnv(e))
              ELSE values
    IN  IF ~Truthy(Get(v1, "credentials_path"))
        THEN SetItem(v1, "credentials_path", e["GOOGLE_APPLICATION_CREDENTIALS"])
        ELSE v1

\* pydantic field validation: extra="forbid", and str | None fields take
\* only None or a str
SeqToSet(q) == { q[i] : i \in 1..Len(q) }
FieldsValid(values, fields, anyFields) ==
    /\ DictKeys(values) \subseteq SeqToSet(fields)
    /\ \A i \in 1..Len(values) :
          values[i].k \in anyFields \/ values[i].v.t \in {"none", "str"}

\* the model instance: every declared field, default None
ModelFields(values, fields) == [i \in 1..Len(fields) |-> Item(fields[i], Get(values, fields[i]))]

NoConfig == [cls |-> "", fields |-> <<>>]
Resolved(cls, fields) == [kind |-> "ok", exc |-> "", msg |-> "",
                          obj |-> [cls |-> cls, fields |-> fields]]
Failed(exc, msg) == [kind |-> "exc", exc |-> exc, msg |-> msg, obj |-> NoConfig]

\* service_account.Credentials.from_service_account_file(path)
LoadCredentials(path) == Obj(path)

\* AWSConfig(**config)
NewAWSConfig(config, e) ==
    LET values == AWSResolveFromEnv(config, e)
    IN  IF ~FieldsValid(values, AWSFields, {})
        THEN Failed("ValidationError", "field")
        ELSE Resolved("AWSConfig", ModelFields(values, AWSFields))

\* GCPConfig.validate_project_and_credentials: self.project_id is None
ProjectMissing(fields) == Get(fields, "project_id").t = "none"

\* GCPConfig(**config)
NewGCPConfig(config, e) ==
    LET values == GCPResolveFromEnv(config, e)
        fields == ModelFields(values, GCPFields)
        path == Get(fields, "credentials_path")
    IN  IF ~FieldsValid(values, GCPFields, {"credentials"})
        THEN Failed("ValidationError", "field")
        ELSE IF ProjectMissing(fields)
        THEN Failed("ValidationError", "GCP project_id is required")
        ELSE IF Get(fields, "credentials").t = "none" /\ Truthy(path)
        THEN IF ~PathExists(path.s)
             THEN Failed("ValidationError", "Credentials file not found")
             ELSE Resolved("GCPConfig",
                           SetItem(fields, "credentials", LoadCredentials(path.s)))
        ELSE Resolved("GCPConfig", fields)

ConfigRegistry == {"aws", "gcp"}

ValidateConfig(cloud_provider, config, e) ==
    IF cloud_provider \notin ConfigRegistry
    THEN Failed("ValueError", "No config model registered for provider")
    ELSE IF cloud_provider = "aws" THEN NewAWSConfig(config, e)
    ELSE NewGCPConfig(config, e)

\* environments and raw configs the model draws from
EnvUnset == [v \in EnvVars |-> None]
ProjectEnvValues == {None, Str(""), Str("env-proj")}
GcloudEnvValues == {None, Str(""), Str("gcloud-proj")}
CredPathEnvValues == {None, Str("/missing.json"), Str("/key.json")}
RegionEnvValues == {None, Str("eu-west-1")}
KeyEnvValues == {None, Str("env_key")}

Envs ==
    { [EnvUnset EXCEPT !["GOOGLE_CLOUD_PROJECT"] = p, !["GCLOUD_PROJECT"] = g,
                       !["GOOGLE_APPLICATION_CREDENTIALS"] = c,
                       !["AWS_DEFAULT_REGION"] = r, !["AWS_ACCESS_KEY_ID"] = k]
      : p \in ProjectEnvValues, g \in GcloudEnvValues, c \in CredPathEnvValues,
        r \in RegionEnvValues, k \in KeyEnvValues }

RawConfigs ==
    { <<>>,
      <<Item("project_id", Str("p"))>>,
      <<Item("project_id", Str(""))>>,
      <<Item("project_id", None)>>,
      <<Item("project_id", Str("p")), Item("credentials_path", Str("/missing.json"))>>,
      <<Item("project_id", Str("p")), Item("credentials_path", Str("/key.json"))>>,
      <<Item("project_id", Str("p")), Item("credentials", Obj("creds")),
        Item("credentials_path", Str("/missing.json"))>>,
      <<Item("aws_access_key_id", Str("k")), Item("aws_secret_access_key", Str("s")),
        Item("region_name", Str("us-east-1"))>>,
      <<Item("region_name", Str(""))>>,
      <<Item("region_name", Str("us-east-1"))>>,
      <<Item("bogus", Str("x"))>> }

Providers == {"aws", "gcp", "azure"}

NoInput == [provider |-> "", config |-> <<>>]
NoOutput == [kind |-> "none", exc |-> "", msg |-> "", obj |-> NoConfig]

(***************************************************************************)
(* cloud/aws/factory.py, cloud/gcp/factory.py, cloud/factory.py: the        *)
(* registries and the backend constructors they name.                      *)
(***************************************************************************)
RegisteredServices == {"secret_manager", "storage", "queue", "compute", "dns",
                       "iam", "logging"}

\* SERVICE_REGISTRY of each provider: service name -> backend class
AWSServiceRegistry == [sn \in RegisteredServices |-> [provider |-> "aws", service |-> sn]]
GCPServiceRegistry == [sn \in RegisteredServices |-> [provider |-> "gcp", service |-> sn]]

\* _FACTORY_REGISTRY
FactoryRegistry == [cp \in {"aws", "gcp"} |->
                       IF cp = "aws" THEN AWSServiceRegistry ELSE GCPServiceRegistry]

\* the blueprint each backend class derives from
BlueprintOf(sn) ==
    CASE sn = "secret_manager" -> "SecretManagerBlueprint"
      [] sn = "storage" -> "CloudStorageBlueprint"
      [] sn = "queue" -> "QueueBlueprint"
      [] sn = "compute" -> "ComputeBlueprint"
      [] sn = "dns" -> "DNSBlueprint"
      [] sn = "iam" -> "IAMBlueprint"
      [] sn = "logging" -> "LoggingBlueprint"
      [] OTHER -> ""

\* how each backend __init__ reads its config argument: config.get("f")
\* (a dict) or config.f (a config model)
ConfigAccess(cp, sn) ==
    IF \/ cp = "aws" /\ sn \in {"secret_manager", "compute"}
       \/ cp = "gcp" /\ sn \in {"secret_manager", "storage"}
    THEN "get" ELSE "attr"

\* the backends whose __init__ calls sts.get_caller_identity()
EagerRemoteCall(cp, sn) == cp = "aws" /\ sn \in {"secret_manager", "iam"}

\* the backends whose __init__ asserts config.project_id is not None
AssertsProject(cp, sn) == cp = "gcp" /\ sn \in {"compute", "dns", "queue"}

\* service_class(config): the outcome of the backend __init__ for a config
\* object (a pydantic model, which has no .get, or a plain dict, which has
\* no field attributes) and for the outcome of its eager remote call
BackendInit(cp, sn, configObj, remoteOk) ==
    IF ConfigAccess(cp, sn) = "get" /\ configObj.cls # "dict"
    THEN [kind |-> "exc", exc |-> "AttributeError"]
    ELSE IF ConfigAccess(cp, sn) = "attr" /\ configObj.cls = "dict"
    THEN [kind |-> "exc", exc |-> "AttributeError"]
    ELSE IF AssertsProject(cp, sn) /\ Get(configObj.fields, "project_id").t = "none"
    THEN [kind |-> "exc", exc |-> "AssertionError"]
    ELSE IF EagerRemoteCall(cp, sn) /\ ~remoteOk
    THEN [kind |-> "exc", exc |-> "ClientError"]
    ELSE [kind |-> "ok", exc |-> ""]

\* the arguments universal_factory is called with
FactoryServices == RegisteredServices \cup {"database"}
FactoryProviders == {"aws", "gcp", "azure"}
FactoryConfigs ==
    { <<>>,
      <<Item("project_id", Str("p"))>>,
      <<Item("bogus", Str("x"))>> }
FactoryEnvs == { EnvUnset, [EnvUnset EXCEPT !["GOOGLE_CLOUD_PROJECT"] = Str("env-proj")] }

NoArgs == [service_name |-> "", cloud_provider |-> "", config |-> <<>>]
NoOutcome == [kind |-> "none", args |-> NoArgs, stage |-> "", exc |-> "", msg |-> "",
              inst |-> 0, blueprint |-> "", ctor |-> FALSE]

(***************************************************************************)
(* The get_or_create requests the threads issue.                           *)
(***************************************************************************)
CfgUsA == <<Item("region", Str("us")), Item("zone", Str("a"))>>
CfgAUs == <<Item("zone", Str("a")), Item("region", Str("us"))>>
CfgNest1 == <<Item("opts", Dict(<<Item("a", Str("1")), Item("b", Str("2"))>>))>>
CfgNest2 == <<Item("opts", Dict(<<Item("b", Str("2")), Item("a", Str("1"))>>))>>
\* a config whose region is an object with the text "us" (as pathlib.Path or
\* an enum member has): not a str, but serialised through default=str
CfgUsObj == <<Item("region", Obj("us")), Item("zone", Str("a"))>>

Requests ==
    { [provider |-> "aws", service |-> "s3", config |-> CfgUsA],
      [provider |-> "aws", service |-> "s3", config |-> CfgAUs],
      [provider |-> "aws", service |-> "s3", config |-> CfgUsObj],
      [provider |-> "gcp", service |-> "s3", config |-> CfgNest1],
      [provider |-> "gcp", service |-> "s3", config |-> CfgNest2] }

KeyOf(r) == MakeKey(r.provider, r.service, r.config)

Keys == { KeyOf(r) : r \in Requests }

\* the exceptions a constructor passed to get_or_create may raise
CtorExceptions == {"RuntimeError", "QueueError"}

\* no Queue method called yet
NoQueueResult == [provider |-> "", op |-> "", id |-> <<>>, faults |-> <<>>,
                  missing |-> FALSE, calls |-> <<>>, targets |-> {}, kind |-> "none",
                  exc |-> "",
                  value |-> <<>>]

\* no backend call made yet
NoBackendResult == [provider |-> "", cap |-> "", op |-> "", cfg |-> "", outs |-> <<>>,
                    kind |-> "none", exc |-> ""]

\* `last_exc = None`, and the result of a wrapper call that has not completed
NoException == [type |-> "None", id |-> 0]
NoRetryArgs == [max_attempts |-> 0, base_delay |-> 0, max_delay |-> 0,
                backoff_factor |-> 0, retryable_exceptions |-> {}]
NoRetryResult == [kind |-> "none", value |-> 0, exc |-> NoException]

NoKey == Sha256(<<>>)

\* no call is suspended in its constructor
NoFrame == [active |-> FALSE, key |-> NoKey]
NoResult == [kind |-> "none", key |-> NoKey, inst |-> 0, exc |-> "",
             epoch |-> 0, calls |-> 0, fresh |-> FALSE]

VARIABLES
    cache,        \* ClientCache._cache: key -> instance
    lock,         \* ClientCache._lock: 0 when free, else the holding thread
    pc,           \* position of each thread in get_or_create / clear
    args,         \* arguments of the thread's current (or last) call
    key,          \* local `key` of get_or_create
    constructed,  \* the thread's current call has invoked the constructor
    raised,       \* exception in flight in the thread ("" when none)
    ret,          \* outcome of the thread's last completed get_or_create
    ctorCalls,    \* per key: constructor invocations so far
    ctorRaises,   \* per key: constructor invocations that raised
    nClears,      \* clear() calls completed
    nCalls,       \* get_or_create calls started
    nextId,       \* identity of the next object constructed
    env,          \* os.environ
    cfgIn,        \* arguments of the last validate_config call
    cfgOut,       \* its outcome: the config model as returned, or the exception
    cfgObj,       \* the config model object the caller holds, as it is now
    fpc,          \* position of the caller inside universal_factory
    fargs,        \* arguments of the current universal_factory call
    fcfg,         \* local configObj
    fctor,        \* the current call has invoked a backend constructor
    fres,         \* outcome of the last completed universal_factory call
    fCalls,       \* universal_factory calls started
    bres,         \* the last backend call (constructor or operation) and its outcome
    sqs,          \* SQS: the URLs of the queues that exist
    topics,       \* Pub/Sub: the paths of the topics that exist
    subs,         \* Pub/Sub: the paths of the subscriptions that exist
    qres,         \* the last Queue method call and its outcome
    qmade,        \* per provider: what create_queue returned and what it created
    qmiss,        \* the last failure on a missing queue (no SDK fault) before qres
    _instance,    \* ClientCache._instance: 0 for None, else the object
    heap,         \* per ClientCache object: its _cache and _lock (0: not set)
    npc,          \* position of each thread inside ClientCache.__new__
    obtained,     \* what the completed ClientCache() calls returned
    rpc,          \* position inside the retry wrapper
    rargs,        \* arguments of the retry decorator in the current call
    attempt,      \* local `attempt` of the wrapper
    delay,        \* local `delay` of the wrapper
    last_exc,     \* local `last_exc` of the wrapper
    rlog,         \* outcomes of the invocations of the wrapped function, in order
    sleeps,       \* arguments of the time.sleep calls, in order
    rres,         \* outcome of the wrapper call
    outer         \* per thread: the get_or_create call suspended in its constructor

cacheVars == <<cache, lock, pc, args, key, constructed, raised, ret,
               ctorCalls, ctorRaises, nClears, nCalls, nextId>>

configVars == <<env, cfgIn, cfgOut, cfgObj>>

factoryVars == <<fpc, fargs, fcfg, fctor, fres, fCalls>>

backendVars == <<bres>>

queueVars == <<sqs, topics, subs, qres, qmade, qmiss>>

singletonVars == <<_instance, heap, npc, obtained>>

retryVars == <<rpc, rargs, attempt, delay, last_exc, rlog, sleeps, rres>>

nestVars == <<outer>>

laterVars == <<backendVars, queueVars, singletonVars, retryVars, nestVars>>

vars == <<cacheVars, configVars, factoryVars, laterVars>>

InitCache ==
    /\ cache = <<>>
    /\ lock = 0
    /\ pc = [t \in Threads |-> "idle"]
    /\ args = [t \in Threads |-> [provider |-> "aws", service |-> "s3", config |-> CfgUsA]]
    /\ key = [t \in Threads |-> NoKey]
    /\ constructed = [t \in Threads |-> FALSE]
    /\ raised = [t \in Threads |-> ""]
    /\ ret = [t \in Threads |-> NoResult]
    /\ ctorCalls = [k \in Keys |-> 0]
    /\ ctorRaises = [k \in Keys |-> 0]
    /\ nClears = 0
    /\ nCalls = 0
    /\ nextId = 1

InitConfigIdle == cfgIn = NoInput /\ cfgOut = NoOutput /\ cfgObj = NoConfig

InitFactoryIdle ==
    /\ fpc = "idle"
    /\ fargs = NoArgs
    /\ fcfg = NoConfig
    /\ fctor = FALSE
    /\ fres = NoOutcome
    /\ fCalls = 0

InitBackendIdle == bres = NoBackendResult

InitQueueIdle ==
    /\ sqs = {} /\ topics = {} /\ subs = {}
    /\ qres = NoQueueResult
    /\ qmade = [p \in {"aws", "gcp"} |-> {}]
    /\ qmiss = [provider |-> "", op |-> "", exc |-> ""]

InitSingletonIdle ==
    /\ _instance = 0
    /\ heap = <<>>
    /\ npc = [t \in Threads |-> "idle"]
    /\ obtained = {}

InitRetryIdle ==
    /\ rpc = "idle"
    /\ rargs = NoRetryArgs
    /\ attempt = 0
    /\ delay = 0
    /\ last_exc = NoException
    /\ rlog = <<>>
    /\ sleeps = <<>>
    /\ rres = NoRetryResult

InitNestIdle == outer = [t \in Threads |-> NoFrame]

InitLaterIdle ==
    InitBackendIdle /\ InitQueueIdle /\ InitSingletonIdle /\ InitRetryIdle /\ InitNestIdle

Init == InitCache /\ env = EnvUnset /\ InitConfigIdle /\ InitFactoryIdle /\ InitLaterIdle

(***************************************************************************)
(* ClientCache.get_or_create                                               *)
(***************************************************************************)
\* line 59: key = self._make_key(cloud_provider, service_name, config)
GetOrCreate_MakeKey(t, r) ==
    /\ pc[t] = "idle"
    /\ nCalls < MaxCalls
    /\ nCalls' = nCalls + 1
    /\ args' = [args EXCEPT ![t] = r]
    /\ key' = [key EXCEPT ![t] = MakeKey(r.provider, r.service, r.config)]
    /\ constructed' = [constructed EXCEPT ![t] = FALSE]
    /\ pc' = [pc EXCEPT ![t] = "acquire"]
    /\ UNCHANGED <<cache, lock, raised, ret, ctorCalls, ctorRaises, nClears, nextId>>
    /\ UNCHANGED <<configVars, factoryVars, laterVars>>

\* entering the critical section without waiting for the lock
GetOrCreate_AcquireNoWait(t) ==
    /\ pc[t] = "acquire"
    /\ lock' = t
    /\ pc' = [pc EXCEPT ![t] = "lookup"]
    /\ UNCHANGED <<cache, args, key, constructed, raised, ret, ctorCalls,
                   ctorRaises, nClears, nCalls, nextId>>
    /\ UNCHANGED <<configVars, factoryVars, laterVars>>

\* line 60: with self._lock  (threading.Lock.acquire blocks while held)
GetOrCreate_Acquire(t) ==
    /\ pc[t] = "acquire"
    /\ lock = 0
    /\ lock' = t
    /\ pc' = [pc EXCEPT ![t] = "lookup"]
    /\ UNCHANGED <<cache, args, key, constructed, raised, ret, ctorCalls,
                   ctorRaises, nClears, nCalls, nextId>>
    /\ UNCHANGED <<configVars, factoryVars, laterVars>>

\* a lookup that never finds the key
GetOrCreate_LookupMiss(t) ==
    /\ pc[t] = "lookup"
    /\ pc' = [pc EXCEPT ![t] = "construct"]
    /\ UNCHANGED <<cache, lock, args, key, constructed, raised, ret, ctorCalls,
                   ctorRaises, nClears, nCalls, nextId>>
    /\ UNCHANGED <<configVars, factoryVars, laterVars>>

\* line 61: if key not in self._cache
GetOrCreate_Lookup(t) ==
    /\ pc[t] = "lookup"
    /\ pc' = [pc EXCEPT ![t] = IF key[t] \in DOMAIN cache THEN "return" ELSE "construct"]
    /\ UNCHANGED <<cache, lock, args, key, constructed, raised, ret, ctorCalls,
                   ctorRaises, nClears, nCalls, nextId>>
    /\ UNCHANGED <<configVars, factoryVars, laterVars>>

\* the mapping after `self._cache[key] = value`
CacheStore(c, k, value) == [x \in DOMAIN c \cup {k} |-> IF x = k THEN value ELSE c[x]]

\* line 62: self._cache[key] = factory(config), the constructor returning
GetOrCreate_Construct(t) ==
    /\ pc[t] = "construct"
    /\ ctorCalls' = [ctorCalls EXCEPT ![key[t]] = @ + 1]
    /\ constructed' = [constructed EXCEPT ![t] = TRUE]
    /\ cache' = CacheStore(cache, key[t], nextId)
    /\ nextId' = nextId + 1
    /\ pc' = [pc EXCEPT ![t] = "return"]
    /\ UNCHANGED <<lock, args, key, raised, ret, ctorRaises, nClears, nCalls>>
    /\ UNCHANGED <<configVars, factoryVars, laterVars>>

\* a failed construction leaving a None entry under the key
CacheAfterRaisePoisoned(c, k) == CacheStore(c, k, 0)

\* the mapping after a constructor raised inside `self._cache[key] = factory(config)`:
\* the assignment never runs
CacheAfterRaise(c, k) == c

\* line 62: factory(config) raising e
GetOrCreate_ConstructRaise(t, e) ==
    /\ pc[t] = "construct"
    /\ ctorCalls' = [ctorCalls EXCEPT ![key[t]] = @ + 1]
    /\ constructed' = [constructed EXCEPT ![t] = TRUE]
    /\ cache' = CacheAfterRaise(cache, key[t])
    /\ ctorRaises' = [ctorRaises EXCEPT ![key[t]] = @ + 1]
    /\ raised' = [raised EXCEPT ![t] = e]
    /\ pc' = [pc EXCEPT ![t] = "unwind"]
    /\ UNCHANGED <<lock, args, key, ret, nClears, nCalls, nextId>>
    /\ UNCHANGED <<configVars, factoryVars, laterVars>>

\* the exception the caller sees once the with-block has released the lock:
\* Lock.__exit__ does not suppress or replace it
Propagated(e) == e

\* an exception leaving the with-block with the lock still held
GetOrCreate_UnwindHolding(t) ==
    /\ pc[t] = "unwind"
    /\ ret' = [ret EXCEPT ![t] = [kind |-> "exc", key |-> key[t], inst |-> 0,
                                  exc |-> Propagated(raised[t]), epoch |-> nClears,
                                  calls |-> ctorCalls[key[t]],
                                  fresh |-> constructed[t]]]
    /\ raised' = [raised EXCEPT ![t] = ""]
    /\ pc' = [pc EXCEPT ![t] = "idle"]
    /\ UNCHANGED <<cache, lock, args, key, constructed, ctorCalls, ctorRaises, nClears,
                   nCalls, nextId>>
    /\ UNCHANGED <<configVars, factoryVars, laterVars>>

\* line 60, leaving the with-block on an exception: release and propagate
GetOrCreate_Unwind(t) ==
    /\ pc[t] = "unwind"
    /\ lock' = 0
    /\ ret' = [ret EXCEPT ![t] = [kind |-> "exc", key |-> key[t], inst |-> 0,
                                  exc |-> Propagated(raised[t]), epoch |-> nClears,
                                  calls |-> ctorCalls[key[t]],
                                  fresh |-> constructed[t]]]
    /\ raised' = [raised EXCEPT ![t] = ""]
    /\ pc' = [pc EXCEPT ![t] = "idle"]
    /\ UNCHANGED <<cache, args, key, constructed, ctorCalls, ctorRaises, nClears,
                   nCalls, nextId>>
    /\ UNCHANGED <<configVars, factoryVars, laterVars>>

\* line 63: return self._cache[key] (KeyError when the key is not there),
\* then the with-block releases the lock
GetOrCreate_Return(t) ==
    /\ pc[t] = "return"
    /\ lock' = 0
    /\ ret' = [ret EXCEPT ![t] =
                  IF key[t] \in DOMAIN cache
                  THEN [kind |-> "value", key |-> key[t], inst |-> cache[key[t]],
                        exc |-> "", epoch |-> nClears,
                        calls |-> ctorCalls[key[t]], fresh |-> constructed[t]]
                  ELSE [kind |-> "exc", key |-> key[t], inst |-> 0,
                        exc |-> "KeyError", epoch |-> nClears,
                        calls |-> ctorCalls[key[t]], fresh |-> constructed[t]]]
    /\ pc' = [pc EXCEPT ![t] = "idle"]
    /\ UNCHANGED <<cache, args, key, constructed, raised, ctorCalls, ctorRaises,
                   nClears, nCalls, nextId>>
    /\ UNCHANGED <<configVars, factoryVars, laterVars>>

(***************************************************************************)
(* ClientCache.clear                                                       *)
(***************************************************************************)
\* line 67: with self._lock
Clear_Acquire(t) ==
    /\ pc[t] = "idle"
    /\ nClears < MaxClears
    /\ lock = 0
    /\ lock' = t
    /\ pc' = [pc EXCEPT ![t] = "clear"]
    /\ UNCHANGED <<cache, args, key, constructed, raised, ret, ctorCalls,
                   ctorRaises, nClears, nCalls, nextId>>
    /\ UNCHANGED <<configVars, factoryVars, laterVars>>

\* a clear() that evicts nothing
ClearedNothing(c) == c

\* the mapping after self._cache.clear()
Cleared(c) == <<>>

\* line 68: self._cache.clear(), then the with-block releases the lock
Clear_Flush(t) ==
    /\ pc[t] = "clear"
    /\ cache' = Cleared(cache)
    /\ lock' = 0
    /\ nClears' = nClears + 1
    /\ pc' = [pc EXCEPT ![t] = "idle"]
    /\ UNCHANGED <<args, key, constructed, raised, ret, ctorCalls, ctorRaises,
                   nCalls, nextId>>
    /\ UNCHANGED <<configVars, factoryVars, laterVars>>

NextCache ==
    \/ \E t \in Threads, r \in Requests : GetOrCreate_MakeKey(t, r)
    \/ \E t \in Threads : GetOrCreate_Acquire(t)
    \/ \E t \in Threads : GetOrCreate_Lookup(t)
    \/ \E t \in Threads : GetOrCreate_Construct(t)
    \/ \E t \in Threads, e \in CtorExceptions : GetOrCreate_ConstructRaise(t, e)
    \/ \E t \in Threads : GetOrCreate_Unwind(t)
    \/ \E t \in Threads : GetOrCreate_Return(t)
    \/ \E t \in Threads : Clear_Acquire(t)
    \/ \E t \in Threads : Clear_Flush(t)

Next == NextCache

Spec == Init /\ [][Next]_vars

(***************************************************************************)
(* get_or_create called from inside a constructor.  The constructor runs   *)
(* at line 62, inside `with self._lock`, on the thread that holds the      *)
(* lock; a call it makes on the cache is an ordinary get_or_create call of *)
(* that thread, which starts while the outer call is suspended.            *)
(***************************************************************************)
\* line 62, inside factory(config): the constructor calls
\* get_or_create(r.provider, r.service, r.config, ...) for another key;
\* line 59 of the inner call computes its key
Nested_Call(t, r) ==
    /\ pc[t] = "construct"
    /\ ~outer[t].active
    /\ nCalls < MaxCalls
    /\ KeyOf(r) # key[t]
    /\ nCalls' = nCalls + 1
    /\ outer' = [outer EXCEPT ![t] = [active |-> TRUE, key |-> key[t]]]
    /\ args' = [args EXCEPT ![t] = r]
    /\ key' = [key EXCEPT ![t] = KeyOf(r)]
    /\ constructed' = [constructed EXCEPT ![t] = FALSE]
    /\ pc' = [pc EXCEPT ![t] = "acquire"]
    /\ UNCHANGED <<cache, lock, raised, ret, ctorCalls, ctorRaises, nClears, nextId>>
    /\ UNCHANGED <<configVars, factoryVars, backendVars, queueVars, singletonVars,
                   retryVars>>

NextReentrant ==
    \/ \E t \in Threads, r \in Requests : GetOrCreate_MakeKey(t, r)
    \/ \E t \in Threads : GetOrCreate_Acquire(t)
    \/ \E t \in Threads : GetOrCreate_Lookup(t)
    \/ \E t \in Threads : GetOrCreate_Construct(t)
    \/ \E t \in Threads, e \in CtorExceptions : GetOrCreate_ConstructRaise(t, e)
    \/ \E t \in Threads : GetOrCreate_Unwind(t)
    \/ \E t \in Threads : GetOrCreate_Return(t)
    \/ \E t \in Threads : Clear_Acquire(t)
    \/ \E t \in Threads : Clear_Flush(t)
    \/ \E t \in Threads, r \in Requests : Nested_Call(t, r)

\* fair scheduling: a thread that can take the next step of its call
\* eventually takes it, and a running constructor eventually returns, raises
\* or calls into the cache
FairCalls ==
    \A t \in Threads :
        /\ WF_vars(GetOrCreate_Acquire(t))
        /\ WF_vars(GetOrCreate_Lookup(t))
        /\ WF_vars(\/ GetOrCreate_Construct(t)
                   \/ \E e \in CtorExceptions : GetOrCreate_ConstructRaise(t, e)
                   \/ \E r \in Requests : Nested_Call(t, r))
        /\ WF_vars(GetOrCreate_Unwind(t))
        /\ WF_vars(GetOrCreate_Return(t))
        /\ WF_vars(Clear_Flush(t))

SpecReentrant == Init /\ [][NextReentrant]_vars /\ FairCalls

(***************************************************************************)
(* validate_config, called under every environment.                        *)
(***************************************************************************)
\* lines 104-121
ValidateConfigCall(cloud_provider, config) ==
    /\ cfgIn' = [provider |-> cloud_provider, config |-> config]
    /\ cfgOut' = ValidateConfig(cloud_provider, config, env)
    /\ cfgObj' = cfgOut'.obj
    /\ UNCHANGED <<env, cacheVars, factoryVars, laterVars>>

InitConfig ==
    InitCache /\ env \in Envs /\ InitConfigIdle /\ InitFactoryIdle /\ InitLaterIdle

NextConfig == \E p \in Providers, c \in RawConfigs : ValidateConfigCall(p, c)

SpecConfig == InitConfig /\ [][NextConfig]_vars

(***************************************************************************)
(* A caller holding the model validate_config returned.  AWSConfig and     *)
(* GCPConfig set model_config = ConfigDict(extra="forbid") and nothing      *)
(* else, so BaseModel.__setattr__ stores a value given for a declared      *)
(* field (no frozen, no validate_assignment).                              *)
(***************************************************************************)
DeclaredFields(cls) ==
    CASE cls = "AWSConfig" -> SeqToSet(AWSFields)
      [] cls = "GCPConfig" -> SeqToSet(GCPFields)
      [] OTHER -> {}

AssignedValues == {None, Str("changed")}

\* the fields after `cfg.<field> = value`
FieldsAfterSetAttr(fields, field, value) == SetItem(fields, field, value)

\* cfg.<field> = value on the held model
Config_SetAttr(field, value) ==
    /\ cfgOut.kind = "ok"
    /\ field \in DeclaredFields(cfgObj.cls)
    /\ cfgObj' = [cfgObj EXCEPT !.fields = FieldsAfterSetAttr(@, field, value)]
    /\ UNCHANGED <<env, cfgIn, cfgOut, cacheVars, factoryVars, laterVars>>

UseEnvs == { EnvUnset,
             [EnvUnset EXCEPT !["GOOGLE_CLOUD_PROJECT"] = Str("env-proj"),
                              !["AWS_DEFAULT_REGION"] = Str("eu-west-1")] }

InitConfigUse ==
    InitCache /\ env \in UseEnvs /\ InitConfigIdle /\ InitFactoryIdle /\ InitLaterIdle

NextConfigUse ==
    \/ \E p \in Providers, c \in RawConfigs : ValidateConfigCall(p, c)
    \/ \E f \in SeqToSet(AWSFields) \cup SeqToSet(GCPFields), v \in AssignedValues :
          Config_SetAttr(f, v)

SpecConfigUse == InitConfigUse /\ [][NextConfigUse]_vars

(***************************************************************************)
(* universal_factory (cloud/factory.py lines 76-104), one caller.          *)
(***************************************************************************)
FactoryRaise(stage, exc, msg) ==
    [kind |-> "exc", args |-> fargs, stage |-> stage, exc |-> exc, msg |-> msg,
     inst |-> 0, blueprint |-> "", ctor |-> fctor]

Factory_Call(service_name, cloud_provider, config) ==
    /\ fpc = "idle"
    /\ fCalls < MaxFactoryCalls
    /\ fCalls' = fCalls + 1
    /\ fargs' = [service_name |-> service_name, cloud_provider |-> cloud_provider,
                 config |-> config]
    /\ fcfg' = NoConfig
    /\ fctor' = FALSE
    /\ fpc' = "provider"
    /\ UNCHANGED <<fres, cacheVars, configVars, laterVars>>

\* a provider check that lets every name through
ProviderSupportedAlways(cloud_provider) == TRUE

\* line 92: cloud_provider in _FACTORY_REGISTRY

ProviderSupported(cloud_provider) == cloud_provider \in DOMAIN FactoryRegistry

\* line 95: provider_services = _FACTORY_REGISTRY[cloud_provider]
ProviderServices(cloud_provider) ==
    IF cloud_provider \in DOMAIN FactoryRegistry
    THEN FactoryRegistry[cloud_provider] ELSE <<>>

\* lines 92-93
Factory_CheckProvider ==
    /\ fpc = "provider"
    /\ IF ~ProviderSupported(fargs.cloud_provider)
       THEN /\ fres' = FactoryRaise("provider", "ValueError", "Unsupported cloud provider")
            /\ fpc' = "idle"
       ELSE /\ fpc' = "service"
            /\ UNCHANGED fres
    /\ UNCHANGED <<fargs, fcfg, fctor, fCalls, cacheVars, configVars, laterVars>>

\* a service check that lets every name through
ServiceSupportedAlways(cloud_provider, service_name) == TRUE

\* line 97: service_name not in provider_services
ServiceSupported(cloud_provider, service_name) ==
    service_name \in DOMAIN ProviderServices(cloud_provider)

\* lines 95-100
Factory_CheckService ==
    /\ fpc = "service"
    /\ IF ~ServiceSupported(fargs.cloud_provider, fargs.service_name)
       THEN /\ fres' = FactoryRaise("service", "ValueError", "Unsupported service")
            /\ fpc' = "idle"
       ELSE /\ fpc' = "config"
            /\ UNCHANGED fres
    /\ UNCHANGED <<fargs, fcfg, fctor, fCalls, cacheVars, configVars, laterVars>>

\* a resolution whose failure is ignored
ConfigResolvedAlways(res) == TRUE

\* line 103: validate_config returned a model rather than raising

ConfigResolved(res) == res.kind = "ok"

\* line 103: configObj = validate_config(cloud_provider, config)
Factory_ValidateConfig ==
    /\ fpc = "config"
    /\ LET res == ValidateConfig(fargs.cloud_provider, fargs.config, env)
       IN  IF ~ConfigResolved(res)
           THEN /\ fres' = FactoryRaise("config", res.exc, res.msg)
                /\ fpc' = "idle"
                /\ UNCHANGED fcfg
           ELSE /\ fcfg' = res.obj
                /\ fpc' = "construct"
                /\ UNCHANGED fres
    /\ UNCHANGED <<fargs, fctor, fCalls, cacheVars, configVars, laterVars>>

\* lines 102, 104: return service_class(configObj)
Factory_Construct(remoteOk) ==
    /\ fpc = "construct"
    /\ fctor' = TRUE
    /\ LET res == BackendInit(fargs.cloud_provider, fargs.service_name, fcfg, remoteOk)
       IN  IF res.kind = "exc"
           THEN /\ fres' = [FactoryRaise("construct", res.exc, "") EXCEPT !.ctor = TRUE]
                /\ UNCHANGED nextId
           ELSE /\ fres' = [kind |-> "value", args |-> fargs, stage |-> "done",
                            exc |-> "", msg |-> "", inst |-> nextId,
                            blueprint |-> BlueprintOf(fargs.service_name),
                            ctor |-> TRUE]
                /\ nextId' = nextId + 1
    /\ fpc' = "idle"
    /\ UNCHANGED <<fargs, fcfg, fCalls, configVars, cache, lock, pc, args, key,
                   constructed, raised, ret, ctorCalls, ctorRaises, nClears, nCalls>>
    /\ UNCHANGED laterVars

InitFactory ==
    InitCache /\ env \in FactoryEnvs /\ InitConfigIdle /\ InitFactoryIdle /\ InitLaterIdle

NextFactory ==
    \/ \E sn \in FactoryServices, cp \in FactoryProviders, c \in FactoryConfigs :
          Factory_Call(sn, cp, c)
    \/ Factory_CheckProvider
    \/ Factory_CheckService
    \/ Factory_ValidateConfig
    \/ \E remoteOk \in BOOLEAN : Factory_Construct(remoteOk)

SpecFactory == InitFactory /\ [][NextFactory]_vars

(***************************************************************************)
(* The AWS backends (cloud/aws/*.py): every operation method runs its SDK  *)
(* calls inside try / except ClientError and turns the error code into a    *)
(* kind of cloud/base/exceptions.py.                                       *)
(***************************************************************************)
\* the per-capability _ERROR_MAP tables
StorageErrorMap ==
    ("NoSuchBucket" :> "BucketNotFoundError") @@ ("NoSuchKey" :> "ObjectNotFoundError")
    @@ ("404" :> "ObjectNotFoundError")
    @@ ("BucketAlreadyExists" :> "BucketAlreadyExistsError")
    @@ ("BucketAlreadyOwnedByYou" :> "BucketAlreadyExistsError")

QueueErrorMap ==
    ("AWS.SimpleQueueService.NonExistentQueue" :> "QueueNotFoundError")
    @@ ("QueueDoesNotExist" :> "QueueNotFoundError")
    @@ ("QueueDeletedRecently" :> "QueueNotFoundError")
    @@ ("QueueAlreadyExists" :> "QueueAlreadyExistsError")

ComputeErrorMap ==
    ("InvalidInstanceID.NotFound" :> "InstanceNotFoundError")
    @@ ("InvalidInstanceID.Malformed" :> "InstanceNotFoundError")

DNSErrorMap ==
    ("NoSuchHostedZone" :> "ZoneNotFoundError")
    @@ ("HostedZoneAlreadyExists" :> "ZoneAlreadyExistsError")

IAMErrorMap ==
    ("NoSuchEntity" :> "RoleNotFoundError") @@ ("EntityAlreadyExists" :> "RoleAlreadyExistsError")
    @@ ("DeleteConflict" :> "IAMError")

LoggingErrorMap ==
    ("ResourceNotFoundException" :> "LogGroupNotFoundError")
    @@ ("ResourceAlreadyExistsException" :> "LogGroupAlreadyExistsError")

\* secret_manager.py has no table
NoErrorMap == <<>>

ErrorMap(cap) ==
    CASE cap = "storage" -> StorageErrorMap
      [] cap = "queue" -> QueueErrorMap
      [] cap = "compute" -> ComputeErrorMap
      [] cap = "dns" -> DNSErrorMap
      [] cap = "iam" -> IAMErrorMap
      [] cap = "logging" -> LoggingErrorMap
      [] OTHER -> NoErrorMap

\* the base exception of each capability
BaseError(cap) ==
    CASE cap = "secret_manager" -> "SecretManagerError"
      [] cap = "storage" -> "StorageError"
      [] cap = "queue" -> "QueueError"
      [] cap = "compute" -> "ComputeError"
      [] cap = "dns" -> "DNSError"
      [] cap = "iam" -> "IAMError"
      [] cap = "logging" -> "LoggingError"
      [] OTHER -> "CloudjackError"

\* the classes of cloud/base/exceptions.py
CloudjackErrors ==
    {"CloudjackError",
     "SecretManagerError", "SecretNotFoundError", "SecretAlreadyExistsError",
     "StorageError", "BucketNotFoundError", "BucketAlreadyExistsError", "ObjectNotFoundError",
     "QueueError", "QueueNotFoundError", "QueueAlreadyExistsError", "MessageError",
     "ComputeError", "InstanceNotFoundError", "InstanceAlreadyExistsError",
     "DNSError", "ZoneNotFoundError", "ZoneAlreadyExistsError", "RecordNotFoundError",
     "IAMError", "RoleNotFoundError", "RoleAlreadyExistsError", "PolicyNotFoundError",
     "LoggingError", "LogGroupNotFoundError", "LogGroupAlreadyExistsError"}

\* a handler that raises the base error whatever the code is
HandleBaseOnly(table, base, code) == base

\* _handle / _handle_client_error: exc = _ERROR_MAP.get(code); raise (exc or Base)(msg)
Handle(table, base, code) == IF code \in DOMAIN table THEN table[code] ELSE base

\* one SDK call of an operation and the except clause around it:
\*   "table"          except ClientError -> _handle(e, msg)
\*   "message"        except ClientError -> raise MessageError
\*   "secret_missing" ResourceNotFoundException -> SecretNotFoundError, else base
\*   "secret_exists"  ResourceExistsException -> SecretAlreadyExistsError, else base
\*   "ensure_stream"  ResourceAlreadyExistsException ignored, else _handle(e, msg)
\* index: the method subscripts [0] into the list of the response
Call(sdk, handler) == [sdk |-> sdk, handler |-> handler, index |-> FALSE]
IndexedCall(sdk, handler) == [sdk |-> sdk, handler |-> handler, index |-> TRUE]
Op(cap, op, calls) == [cap |-> cap, op |-> op, calls |-> calls]

AWSStorageOps ==
    { Op("storage", "create_bucket", <<Call("create_bucket", "table")>>),
      Op("storage", "delete_bucket", <<Call("delete_bucket", "table")>>),
      Op("storage", "list_buckets", <<Call("list_buckets", "table")>>),
      Op("storage", "upload_file", <<Call("upload_file", "table")>>),
      Op("storage", "download_file", <<Call("download_file", "table")>>),
      Op("storage", "delete_object", <<Call("delete_object", "table")>>),
      Op("storage", "list_objects", <<Call("paginate", "table")>>),
      Op("storage", "get_object", <<Call("get_object", "table")>>),
      Op("storage", "generate_signed_url", <<Call("generate_presigned_url", "table")>>) }

AWSQueueOps ==
    { Op("queue", "create_queue", <<Call("create_queue", "table")>>),
      Op("queue", "delete_queue", <<Call("delete_queue", "table")>>),
      Op("queue", "list_queues", <<Call("list_queues", "table")>>),
      Op("queue", "send_message", <<Call("send_message", "message")>>),
      Op("queue", "receive_messages", <<Call("receive_message", "message")>>),
      Op("queue", "delete_message", <<Call("delete_message", "message")>>) }

\* run_instances answers with at least MinCount = 1 instances, so only
\* get_instance can meet an empty list under its [0]
AWSComputeOps ==
    { Op("compute", "create_instance", <<Call("run_instances", "table")>>),
      Op("compute", "start_instance", <<Call("start_instances", "table")>>),
      Op("compute", "stop_instance", <<Call("stop_instances", "table")>>),
      Op("compute", "terminate_instance", <<Call("terminate_instances", "table")>>),
      Op("compute", "list_instances", <<Call("describe_instances", "table")>>),
      Op("compute", "get_instance", <<IndexedCall("describe_instances", "table")>>) }

AWSDNSOps ==
    { Op("dns", "create_zone", <<Call("create_hosted_zone", "table")>>),
      Op("dns", "delete_zone", <<Call("delete_hosted_zone", "table")>>),
      Op("dns", "list_zones", <<Call("list_hosted_zones", "table")>>),
      Op("dns", "create_record", <<Call("change_resource_record_sets", "table")>>),
      Op("dns", "delete_record", <<Call("change_resource_record_sets", "table")>>),
      Op("dns", "list_records", <<Call("list_resource_record_sets", "table")>>) }

AWSIAMOps ==
    { Op("iam", "create_role", <<Call("create_role", "table")>>),
      Op("iam", "delete_role", <<Call("delete_role", "table")>>),
      Op("iam", "list_roles", <<Call("paginate", "table")>>),
      Op("iam", "attach_policy", <<Call("attach_role_policy", "table")>>),
      Op("iam", "detach_policy", <<Call("detach_role_policy", "table")>>),
      Op("iam", "list_policies", <<Call("paginate", "table")>>) }

\* create_log_group makes a second call when retention_days is given;
\* write_log first runs _ensure_stream
AWSLoggingOps ==
    { Op("logging", "create_log_group", <<Call("create_log_group", "table")>>),
      Op("logging", "create_log_group", <<Call("create_log_group", "table"),
                                          Call("put_retention_policy", "table")>>),
      Op("logging", "delete_log_group", <<Call("delete_log_group", "table")>>),
      Op("logging", "list_log_groups", <<Call("paginate", "table")>>),
      Op("logging", "write_log", <<Call("create_log_stream", "ensure_stream"),
                                   Call("put_log_events", "table")>>),
      Op("logging", "read_logs", <<Call("filter_log_events", "table")>>) }

AWSSecretOps ==
    { Op("secret_manager", "get_secret", <<Call("get_secret_value", "secret_missing")>>),
      Op("secret_manager", "create_secret", <<Call("create_secret", "secret_exists")>>),
      Op("secret_manager", "update_secret", <<Call("update_secret", "secret_missing")>>),
      Op("secret_manager", "delete_secret", <<Call("delete_secret", "secret_missing")>>) }

AWSOps == AWSStorageOps \cup AWSQueueOps \cup AWSComputeOps \cup AWSDNSOps
          \cup AWSIAMOps \cup AWSLoggingOps \cup AWSSecretOps

\* what one SDK call does: it answers, answers with an empty list, raises
\* botocore's ClientError with an error code, or raises another botocore
\* exception (EndpointConnectionError is a BotoCoreError, not a ClientError)
\* (the codes drawn for a capability: those its except clauses name and one
\* they do not)
AWSCodes(cap) ==
    DOMAIN ErrorMap(cap) \cup {"AccessDenied"}
    \cup (IF cap = "secret_manager"
          THEN {"ResourceNotFoundException", "ResourceExistsException"} ELSE {})

SdkOk == [kind |-> "ok", code |-> ""]
SdkEmpty == [kind |-> "empty", code |-> ""]
SdkClientError(code) == [kind |-> "client_error", code |-> code]
SdkOtherError == [kind |-> "native", code |-> "EndpointConnectionError"]

SdkOutcomes(cap) ==
    {SdkOk, SdkEmpty, SdkOtherError} \cup { SdkClientError(c) : c \in AWSCodes(cap) }

Returns == [kind |-> "value", exc |-> ""]
Raises(exc) == [kind |-> "exc", exc |-> exc]

\* the exception the except clause of a call raises for a ClientError code
Normalized(cap, handler, code) ==
    CASE handler = "message" -> "MessageError"
      [] handler = "secret_missing" ->
            IF code = "ResourceNotFoundException" THEN "SecretNotFoundError"
            ELSE "SecretManagerError"
      [] handler = "secret_exists" ->
            IF code = "ResourceExistsException" THEN "SecretAlreadyExistsError"
            ELSE "SecretManagerError"
      [] OTHER -> Handle(ErrorMap(cap), BaseError(cap), code)

\* the method body from its i-th SDK call on
RECURSIVE RunCalls(_, _, _)
RunCalls(o, outs, i) ==
    IF i > Len(o.calls) THEN Returns
    ELSE LET call == o.calls[i]
             out == outs[i]
         IN  CASE out.kind = "native" -> Raises(out.code)   \* no except clause matches
               [] out.kind = "client_error" ->
                     IF call.handler = "ensure_stream"
                        /\ out.code = "ResourceAlreadyExistsException"
                     THEN RunCalls(o, outs, i + 1)
                     ELSE Raises(Normalized(o.cap, call.handler, out.code))
               [] out.kind = "empty" /\ call.index -> Raises("IndexError")
               [] OTHER -> RunCalls(o, outs, i + 1)

\* an operation method of an AWS backend called, its SDK calls answering outs
Backend_Call(o, outs) ==
    /\ bres' = [provider |-> "aws", cap |-> o.cap, op |-> o.op, cfg |-> "",
                outs |-> outs, kind |-> RunCalls(o, outs, 1).kind,
                exc |-> RunCalls(o, outs, 1).exc]
    /\ UNCHANGED <<cacheVars, configVars, factoryVars, queueVars, singletonVars, retryVars, nestVars>>

\* the config objects a backend class is constructed with: the model
\* validate_config returns, or (as the backends' own tests do) a plain dict
ConstructorConfigs(cp) ==
    { ValidateConfig(cp, <<Item("project_id", Str("p"))>>, EnvUnset).obj,
      ValidateConfig(cp, <<>>, EnvUnset).obj,
      [cls |-> "dict", fields |-> <<Item("project_id", Str("p"))>>] } \ {NoConfig}

\* sts.get_caller_identity() in a constructor: it answers or raises ClientError
StsOutcomes == {SdkOk, SdkClientError("InvalidClientTokenId")}

\* service_class(config), called directly
Backend_Construct(cp, sn, configObj, sts) ==
    /\ bres' = [provider |-> cp, cap |-> sn, op |-> "__init__", cfg |-> configObj.cls,
                outs |-> <<sts>>,
                kind |-> IF BackendInit(cp, sn, configObj, sts.kind = "ok").kind = "ok"
                         THEN "value" ELSE "exc",
                exc |-> BackendInit(cp, sn, configObj, sts.kind = "ok").exc]
    /\ UNCHANGED <<cacheVars, configVars, factoryVars, queueVars, singletonVars, retryVars, nestVars>>

InitBackend ==
    InitCache /\ env = EnvUnset /\ InitConfigIdle /\ InitFactoryIdle /\ InitLaterIdle

NextBackend ==
    \/ \E o \in AWSOps :
          \E outs \in [1..Len(o.calls) -> SdkOutcomes(o.cap)] : Backend_Call(o, outs)
    \/ \E cp \in {"aws", "gcp"}, sn \in RegisteredServices :
          \E c \in ConstructorConfigs(cp), sts \in StsOutcomes :
             Backend_Construct(cp, sn, c, sts)

SpecBackend == InitBackend /\ [][NextBackend]_vars

(***************************************************************************)
(* The Queue backends (cloud/aws/queue.py on SQS, cloud/gcp/queue.py on    *)
(* Pub/Sub) against the queues, topics and subscriptions that exist at the *)
(* provider.  A name or identifier is a string, kept as the sequence of    *)
(* the pieces it is concatenated from.                                     *)
(***************************************************************************)
QueueNames == { <<"orders">> }
QueueProviders == {"aws", "gcp"}
ProjectId == "p"

\* resp["QueueUrl"] of SQS create_queue for a queue name
SqsUrl(name) == <<"https://sqs.amazonaws.com/123456789012/">> \o name

\* publisher.topic_path(project, name)
TopicPath(name) == <<"projects/", ProjectId, "/topics/">> \o name

\* Queue._sub_path: subscriber.subscription_path(project, f"{name}-sub")
SubPath(name) == <<"projects/", ProjectId, "/subscriptions/">> \o name \o <<"-sub">>

\* what an SDK call does besides what the provider's state decides:
\* "none", "api" (the SDK's API error class: ClientError with code
\* AccessDenied, GoogleAPICallError PermissionDenied) or "other" (an
\* exception outside it: botocore EndpointConnectionError, google RetryError)
Faults == {"none", "api", "other"}
OtherErrorOf(p) == IF p = "aws" THEN "EndpointConnectionError" ELSE "RetryError"

\* the SDK calls an operation makes at most
SdkCallsOf(p, op) == IF p = "gcp" /\ op \in {"create_queue", "delete_queue"} THEN 2 ELSE 1

\* the outcome of an operation: provider state after it, the resources its
\* SDK calls named (in the order of the calls, and as a set), and what the
\* caller gets
QOut(q, t, s, calls, kind, exc, value) ==
    [sqs |-> q, topics |-> t, subs |-> s, calls |-> calls, targets |-> SeqToSet(calls),
     kind |-> kind, exc |-> exc, value |-> value]

\* --- cloud/aws/queue.py ---
AwsCreateQueue(q, t, s, name, f) ==
    LET url == SqsUrl(name)
    IN  CASE f[1] = "other" -> QOut(q, t, s, <<url>>, "exc", OtherErrorOf("aws"), <<>>)
          [] f[1] = "api" ->
                QOut(q, t, s, <<url>>, "exc", Handle(QueueErrorMap, "QueueError", "AccessDenied"), <<>>)
          [] OTHER -> QOut(q \cup {url}, t, s, <<url>>, "value", "", url)

AwsDeleteQueue(q, t, s, id, f) ==
    CASE f[1] = "other" -> QOut(q, t, s, <<id>>, "exc", OtherErrorOf("aws"), <<>>)
      [] f[1] = "api" ->
            QOut(q, t, s, <<id>>, "exc", Handle(QueueErrorMap, "QueueError", "AccessDenied"), <<>>)
      [] id \notin q ->
            QOut(q, t, s, <<id>>, "exc",
                 Handle(QueueErrorMap, "QueueError", "AWS.SimpleQueueService.NonExistentQueue"),
                 <<>>)
      [] OTHER -> QOut(q \ {id}, t, s, <<id>>, "value", "", <<>>)

\* send_message, receive_messages, delete_message: except ClientError -> MessageError
AwsMessaging(q, t, s, id, f) ==
    CASE f[1] = "other" -> QOut(q, t, s, <<id>>, "exc", OtherErrorOf("aws"), <<>>)
      [] f[1] = "api" \/ id \notin q -> QOut(q, t, s, <<id>>, "exc", "MessageError", <<>>)
      [] OTHER -> QOut(q, t, s, <<id>>, "value", "", <<>>)

AwsListQueues(q, t, s, f) ==
    CASE f[1] = "other" -> QOut(q, t, s, <<>>, "exc", OtherErrorOf("aws"), <<>>)
      [] f[1] = "api" ->
            QOut(q, t, s, <<>>, "exc", Handle(QueueErrorMap, "QueueError", "AccessDenied"), <<>>)
      [] OTHER -> QOut(q, t, s, <<>>, "value", "", <<>>)

\* --- cloud/gcp/queue.py ---
\* a subscription half that deletes the topic again when it fails
GcpCreateSubscriptionRollback(q, t2, s, name, f) ==
    LET tp == TopicPath(name)
        sp == SubPath(name)
    IN  CASE f[2] = "other" -> QOut(q, t2, s, <<tp, sp>>, "exc", OtherErrorOf("gcp"), <<>>)
          [] f[2] = "api" \/ sp \in s ->
                QOut(q, t2 \ {tp}, s, <<tp, sp>>, "exc", "QueueError", <<>>)
          [] OTHER -> QOut(q, t2, s \cup {sp}, <<tp, sp>>, "value", "", sp)

\* lines 74-88: the subscription half of create_queue, the topic t2 created
GcpCreateSubscription(q, t2, s, name, f) ==
    LET tp == TopicPath(name)
        sp == SubPath(name)
    IN  CASE f[2] = "other" -> QOut(q, t2, s, <<tp, sp>>, "exc", OtherErrorOf("gcp"), <<>>)
          [] f[2] = "api" \/ sp \in s -> QOut(q, t2, s, <<tp, sp>>, "exc", "QueueError", <<>>)
          [] OTHER -> QOut(q, t2, s \cup {sp}, <<tp, sp>>, "value", "", sp)

\* lines 64-72, then the subscription
GcpCreateQueue(q, t, s, name, f) ==
    LET tp == TopicPath(name)
    IN  CASE f[1] = "other" -> QOut(q, t, s, <<tp>>, "exc", OtherErrorOf("gcp"), <<>>)
          [] f[1] = "api" -> QOut(q, t, s, <<tp>>, "exc", "QueueError", <<>>)
          [] tp \in t -> QOut(q, t, s, <<tp>>, "exc", "QueueAlreadyExistsError", <<>>)
          [] OTHER -> GcpCreateSubscription(q, t \cup {tp}, s, name, f)

\* lines 106-113: the topic half of delete_queue
GcpDeleteTopic(q, t, s2, id, f) ==
    LET tp == TopicPath(id)
        sp == SubPath(id)
    IN  CASE f[2] = "other" -> QOut(q, t, s2, <<sp, tp>>, "exc", OtherErrorOf("gcp"), <<>>)
          [] f[2] = "api" -> QOut(q, t, s2, <<sp, tp>>, "exc", "QueueError", <<>>)
          [] tp \notin t -> QOut(q, t, s2, <<sp, tp>>, "exc", "QueueNotFoundError", <<>>)
          [] OTHER -> QOut(q, t \ {tp}, s2, <<sp, tp>>, "value", "", <<>>)

\* a delete_queue that gives up when the subscription is not there
GcpDeleteQueueStrict(q, t, s, id, f) ==
    LET sp == SubPath(id)
    IN  CASE f[1] = "other" -> QOut(q, t, s, <<sp>>, "exc", OtherErrorOf("gcp"), <<>>)
          [] f[1] = "api" -> QOut(q, t, s, <<sp>>, "exc", "QueueError", <<>>)
          [] sp \notin s -> QOut(q, t, s, <<sp>>, "exc", "QueueNotFoundError", <<>>)
          [] OTHER -> GcpDeleteTopic(q, t, s \ {sp}, id, f)

\* lines 98-105, then the topic; NotFound on the subscription is passed over
GcpDeleteQueue(q, t, s, id, f) ==
    LET sp == SubPath(id)
    IN  CASE f[1] = "other" -> QOut(q, t, s, <<sp>>, "exc", OtherErrorOf("gcp"), <<>>)
          [] f[1] = "api" -> QOut(q, t, s, <<sp>>, "exc", "QueueError", <<>>)
          [] OTHER -> GcpDeleteTopic(q, t, s \ {sp}, id, f)

\* lines 150-158: except Exception -> MessageError
GcpSendMessage(q, t, s, id, f) ==
    LET tp == TopicPath(id)
    IN  IF f[1] # "none" \/ tp \notin t
        THEN QOut(q, t, s, <<tp>>, "exc", "MessageError", <<>>)
        ELSE QOut(q, t, s, <<tp>>, "value", "", <<>>)

\* lines 176-195: NotFound -> QueueNotFoundError, any other -> MessageError
GcpReceiveMessages(q, t, s, id, f) ==
    LET sp == SubPath(id)
    IN  CASE f[1] # "none" -> QOut(q, t, s, <<sp>>, "exc", "MessageError", <<>>)
          [] sp \notin s -> QOut(q, t, s, <<sp>>, "exc", "QueueNotFoundError", <<>>)
          [] OTHER -> QOut(q, t, s, <<sp>>, "value", "", <<>>)

\* lines 207-216: except Exception -> MessageError
GcpDeleteMessage(q, t, s, id, f) ==
    LET sp == SubPath(id)
    IN  IF f[1] # "none" \/ sp \notin s
        THEN QOut(q, t, s, <<sp>>, "exc", "MessageError", <<>>)
        ELSE QOut(q, t, s, <<sp>>, "value", "", <<>>)

\* lines 127-135: only GoogleAPICallError is caught
GcpListQueues(q, t, s, f) ==
    CASE f[1] = "other" -> QOut(q, t, s, <<>>, "exc", OtherErrorOf("gcp"), <<>>)
      [] f[1] = "api" -> QOut(q, t, s, <<>>, "exc", "QueueError", <<>>)
      [] OTHER -> QOut(q, t, s, <<>>, "value", "", <<>>)

\* the method `op` of the provider's Queue class
QueueMethod(p, op, q, t, s, id, f) ==
    CASE p = "aws" /\ op = "create_queue" -> AwsCreateQueue(q, t, s, id, f)
      [] p = "aws" /\ op = "delete_queue" -> AwsDeleteQueue(q, t, s, id, f)
      [] p = "aws" /\ op = "list_queues" -> AwsListQueues(q, t, s, f)
      [] p = "aws" -> AwsMessaging(q, t, s, id, f)
      [] p = "gcp" /\ op = "create_queue" -> GcpCreateQueue(q, t, s, id, f)
      [] p = "gcp" /\ op = "delete_queue" -> GcpDeleteQueue(q, t, s, id, f)
      [] p = "gcp" /\ op = "list_queues" -> GcpListQueues(q, t, s, f)
      [] p = "gcp" /\ op = "send_message" -> GcpSendMessage(q, t, s, id, f)
      [] p = "gcp" /\ op = "receive_messages" -> GcpReceiveMessages(q, t, s, id, f)
      [] OTHER -> GcpDeleteMessage(q, t, s, id, f)

\* no queue, topic or subscription is there under the identifier
QueueMissing(p, id) ==
    IF p = "aws" THEN id \notin sqs
    ELSE TopicPath(id) \notin topics /\ SubPath(id) \notin subs

NoFault(f) == \A i \in 1..Len(f) : f[i] = "none"

\* the identifiers a caller has: the names, and what create_queue returned
QueueIds(p) == QueueNames \cup { m.id : m \in qmade[p] }

FaultSeqs(p, op) == [1..SdkCallsOf(p, op) -> Faults]

\* one call of a Queue method and what it leaves behind
QueueStep(p, op, id, f) ==
    LET out == QueueMethod(p, op, sqs, topics, subs, id, f)
        missing == op # "list_queues" /\ op # "create_queue" /\ QueueMissing(p, id)
    IN  /\ sqs' = out.sqs
        /\ topics' = out.topics
        /\ subs' = out.subs
        /\ qres' = [provider |-> p, op |-> op, id |-> id, faults |-> f,
                    missing |-> missing, calls |-> out.calls, targets |-> out.targets,
                    kind |-> out.kind, exc |-> out.exc, value |-> out.value]
        /\ qmade' = IF op = "create_queue" /\ out.kind = "value"
                       /\ <<out.sqs, out.topics, out.subs>> # <<sqs, topics, subs>>
                    THEN [qmade EXCEPT ![p] = @ \cup
                            {[id |-> out.value,
                              resources |-> (out.sqs \ sqs) \cup (out.topics \ topics)
                                            \cup (out.subs \ subs)]}]
                    ELSE qmade
        /\ qmiss' = IF qres.missing /\ NoFault(qres.faults) /\ qres.kind = "exc"
                    THEN [provider |-> qres.provider, op |-> qres.op, exc |-> qres.exc]
                    ELSE qmiss
        /\ UNCHANGED <<cacheVars, configVars, factoryVars, backendVars, singletonVars, retryVars, nestVars>>

Queue_Create(p, name, f) == QueueStep(p, "create_queue", name, f)
Queue_Delete(p, id, f) == QueueStep(p, "delete_queue", id, f)
Queue_List(p, f) == QueueStep(p, "list_queues", <<>>, f)
Queue_Send(p, id, f) == QueueStep(p, "send_message", id, f)
Queue_Receive(p, id, f) == QueueStep(p, "receive_messages", id, f)
Queue_DeleteMessage(p, id, f) == QueueStep(p, "delete_message", id, f)

InitQueue ==
    InitCache /\ env = EnvUnset /\ InitConfigIdle /\ InitFactoryIdle /\ InitLaterIdle

NextQueue ==
    \/ \E p \in QueueProviders, n \in QueueNames :
          \E f \in FaultSeqs(p, "create_queue") : Queue_Create(p, n, f)
    \/ \E p \in QueueProviders : \E i \in QueueIds(p) :
          \E f \in FaultSeqs(p, "delete_queue") : Queue_Delete(p, i, f)
    \/ \E p \in QueueProviders : \E f \in FaultSeqs(p, "list_queues") : Queue_List(p, f)
    \/ \E p \in QueueProviders : \E i \in QueueIds(p) :
          \E f \in FaultSeqs(p, "send_message") : Queue_Send(p, i, f)
    \/ \E p \in QueueProviders : \E i \in QueueIds(p) :
          \E f \in FaultSeqs(p, "receive_messages") : Queue_Receive(p, i, f)
    \/ \E p \in QueueProviders : \E i \in QueueIds(p) :
          \E f \in FaultSeqs(p, "delete_message") : Queue_DeleteMessage(p, i, f)

SpecQueue == InitQueue /\ [][NextQueue]_vars

(***************************************************************************)
(* ClientCache.__new__: the construction of the process-wide instance by   *)
(* several threads.  No lock guards these lines, so the threads interleave *)
(* between them.                                                           *)
(***************************************************************************)
\* the object super().__new__(cls) returns: neither _cache nor _lock is set
\* on it (the class body only annotates them)
NewObject == [_cache |-> 0, _lock |-> 0]

\* the heap after `obj.<attr> = ref`
SetAttr(h, obj, attr, ref) ==
    [h EXCEPT ![obj] = IF attr = "_cache" THEN [@ EXCEPT !._cache = ref]
                                            ELSE [@ EXCEPT !._lock = ref]]

\* a call ClientCache() enters __new__
New_Call(t) ==
    /\ npc[t] = "idle"
    /\ npc' = [npc EXCEPT ![t] = "test"]
    /\ UNCHANGED <<_instance, heap, obtained>>
    /\ UNCHANGED <<cacheVars, configVars, factoryVars, backendVars, queueVars, retryVars, nestVars>>

\* line 24: if cls._instance is None
New_Test(t) ==
    /\ npc[t] = "test"
    /\ npc' = [npc EXCEPT ![t] = IF _instance = 0 THEN "create" ELSE "return"]
    /\ UNCHANGED <<_instance, heap, obtained>>
    /\ UNCHANGED <<cacheVars, configVars, factoryVars, backendVars, queueVars, retryVars, nestVars>>

\* line 25: cls._instance = super().__new__(cls)
New_Create(t) ==
    /\ npc[t] = "create"
    /\ heap' = Append(heap, NewObject)
    /\ _instance' = Len(heap) + 1
    /\ npc' = [npc EXCEPT ![t] = "set_cache"]
    /\ UNCHANGED obtained
    /\ UNCHANGED <<cacheVars, configVars, factoryVars, backendVars, queueVars, retryVars, nestVars>>

\* line 26: cls._instance._cache = {}   (the dict made by thread t is named t)
New_SetCache(t) ==
    /\ npc[t] = "set_cache"
    /\ heap' = SetAttr(heap, _instance, "_cache", t)
    /\ npc' = [npc EXCEPT ![t] = "set_lock"]
    /\ UNCHANGED <<_instance, obtained>>
    /\ UNCHANGED <<cacheVars, configVars, factoryVars, backendVars, queueVars, retryVars, nestVars>>

\* line 27: cls._instance._lock = threading.Lock()
New_SetLock(t) ==
    /\ npc[t] = "set_lock"
    /\ heap' = SetAttr(heap, _instance, "_lock", t)
    /\ npc' = [npc EXCEPT ![t] = "return"]
    /\ UNCHANGED <<_instance, obtained>>
    /\ UNCHANGED <<cacheVars, configVars, factoryVars, backendVars, queueVars, retryVars, nestVars>>

\* line 28: return cls._instance   (recorded with the attributes the object
\* has at that moment)
New_Return(t) ==
    /\ npc[t] = "return"
    /\ obtained' = obtained \cup { [obj |-> _instance,
                                    _cache |-> heap[_instance]._cache,
                                    _lock |-> heap[_instance]._lock] }
    /\ npc' = [npc EXCEPT ![t] = "idle"]
    /\ UNCHANGED <<_instance, heap>>
    /\ UNCHANGED <<cacheVars, configVars, factoryVars, backendVars, queueVars, retryVars, nestVars>>

InitSingleton ==
    InitCache /\ env = EnvUnset /\ InitConfigIdle /\ InitFactoryIdle /\ InitLaterIdle

NextSingleton ==
    \/ \E t \in Threads : New_Call(t)
    \/ \E t \in Threads : New_Test(t)
    \/ \E t \in Threads : New_Create(t)
    \/ \E t \in Threads : New_SetCache(t)
    \/ \E t \in Threads : New_SetLock(t)
    \/ \E t \in Threads : New_Return(t)

SpecSingleton == InitSingleton /\ [][NextSingleton]_vars

(***************************************************************************)
(* retry: the wrapper around a function, one step per invocation of the    *)
(* function, per sleep and per exit.  Delays are whole seconds.            *)
(***************************************************************************)
\* _DEFAULT_RETRYABLE (lines 18-22)
DefaultRetryable == {"ConnectionError", "TimeoutError", "OSError"}

\* the class hierarchy of the built-in exceptions used here
Bases(type) ==
    CASE type \in {"ConnectionError", "TimeoutError"} -> {type, "OSError", "Exception"}
      [] OTHER -> {type, "Exception"}

\* an except clause that catches every exception
CatchesAll(retryable_exceptions, exc) == TRUE

\* `except retryable_exceptions` matches an instance of a listed class or of a
\* subclass of one
Catches(retryable_exceptions, exc) == Bases(exc.type) \cap retryable_exceptions # {}

\* what the wrapped function may raise, and what it may return
FnExceptionTypes == {"ConnectionError", "OSError", "ValueError", "TypeError"}
FnValues == {"ok"}

\* the decorator arguments in use
MaxAttemptsValues == 0..MaxAttempts
BaseDelays == {1, 5}
BackoffFactors == {1, 2}
MaxDelays == {3}
RetryableSets == { DefaultRetryable, {"ValueError"}, {"ConnectionError"} }

RetryArgs ==
    [max_attempts : MaxAttemptsValues, base_delay : BaseDelays, max_delay : MaxDelays,
     backoff_factor : BackoffFactors, retryable_exceptions : RetryableSets]

Min(a, b) == IF a <= b THEN a ELSE b

\* line 53: for attempt in range(1, max_attempts + 1) has a value for `attempt`
InRange(a, max_attempts) == 1 <= a /\ a <= max_attempts

\* the attempt that gives up one attempt early
LastAttemptEarly(a, max_attempts) == a + 1 = max_attempts

\* line 58: if attempt == max_attempts
LastAttempt(a, max_attempts) == a = max_attempts

\* the exception object the k-th invocation raises
ExcObject(type, k) == [type |-> type, id |-> k]

RetValue(v) == [kind |-> "value", value |-> v, exc |-> NoException]
RetRaise(exc) == [kind |-> "exc", value |-> 0, exc |-> exc]

\* lines 51-53: the wrapper is called; delay = base_delay, last_exc = None,
\* and the loop starts (or has nothing to iterate over)
Retry_Call(a) ==
    /\ rpc = "idle"
    /\ rargs' = a
    /\ delay' = a.base_delay
    /\ last_exc' = NoException
    /\ attempt' = 1
    /\ rlog' = <<>>
    /\ sleeps' = <<>>
    /\ rres' = NoRetryResult
    /\ rpc' = IF InRange(1, a.max_attempts) THEN "invoke" ELSE "after_loop"
    /\ UNCHANGED <<cacheVars, configVars, factoryVars, backendVars, queueVars, singletonVars, nestVars>>

\* line 55: return fn(*args, **kwargs), the function returning v
Retry_Return(v) ==
    /\ rpc = "invoke"
    /\ rlog' = Append(rlog, RetValue(v))
    /\ rres' = RetValue(v)
    /\ rpc' = "idle"
    /\ UNCHANGED <<rargs, attempt, delay, last_exc, sleeps>>
    /\ UNCHANGED <<cacheVars, configVars, factoryVars, backendVars, queueVars, singletonVars, nestVars>>

\* lines 55-65: the function raises an exception the except clause catches;
\* on the last attempt the bare `raise` re-raises it, otherwise the wrapper
\* goes on to sleep
Retry_RaiseRetryable(type) ==
    /\ rpc = "invoke"
    /\ LET exc == ExcObject(type, Len(rlog) + 1) IN
          /\ Catches(rargs.retryable_exceptions, exc)
          /\ rlog' = Append(rlog, RetRaise(exc))
          /\ last_exc' = exc
          /\ IF LastAttempt(attempt, rargs.max_attempts)
             THEN rres' = RetRaise(exc) /\ rpc' = "idle"
             ELSE rres' = rres /\ rpc' = "sleep"
    /\ UNCHANGED <<rargs, attempt, delay, sleeps>>
    /\ UNCHANGED <<cacheVars, configVars, factoryVars, backendVars, queueVars, singletonVars, nestVars>>

\* line 55: the function raises an exception the except clause does not
\* catch; it leaves the wrapper
Retry_RaiseOther(type) ==
    /\ rpc = "invoke"
    /\ LET exc == ExcObject(type, Len(rlog) + 1) IN
          /\ ~Catches(rargs.retryable_exceptions, exc)
          /\ rlog' = Append(rlog, RetRaise(exc))
          /\ rres' = RetRaise(exc)
    /\ rpc' = "idle"
    /\ UNCHANGED <<rargs, attempt, delay, last_exc, sleeps>>
    /\ UNCHANGED <<cacheVars, configVars, factoryVars, backendVars, queueVars, singletonVars, nestVars>>

\* lines 74-75, then line 53: time.sleep(delay);
\* delay = min(delay * backoff_factor, max_delay); next value of `attempt`
Retry_Sleep ==
    /\ rpc = "sleep"
    /\ sleeps' = Append(sleeps, delay)
    /\ delay' = Min(delay * rargs.backoff_factor, rargs.max_delay)
    /\ attempt' = attempt + 1
    /\ rpc' = IF InRange(attempt + 1, rargs.max_attempts) THEN "invoke" ELSE "after_loop"
    /\ UNCHANGED <<rargs, last_exc, rlog, rres>>
    /\ UNCHANGED <<cacheVars, configVars, factoryVars, backendVars, queueVars, singletonVars, nestVars>>

\* line 76: raise last_exc; with last_exc = None the statement itself raises
\* TypeError (exceptions must derive from BaseException)
Retry_AfterLoop ==
    /\ rpc = "after_loop"
    /\ rres' = IF last_exc = NoException
               THEN RetRaise(ExcObject("TypeError", 0))
               ELSE RetRaise(last_exc)
    /\ rpc' = "idle"
    /\ UNCHANGED <<rargs, attempt, delay, last_exc, rlog, sleeps>>
    /\ UNCHANGED <<cacheVars, configVars, factoryVars, backendVars, queueVars, singletonVars, nestVars>>

InitRetry ==
    InitCache /\ env = EnvUnset /\ InitConfigIdle /\ InitFactoryIdle /\ InitLaterIdle

NextRetry ==
    \/ \E a \in RetryArgs : Retry_Call(a)
    \/ \E v \in FnValues : Retry_Return(v)
    \/ \E type \in FnExceptionTypes : Retry_RaiseRetryable(type)
    \/ \E type \in FnExceptionTypes : Retry_RaiseOther(type)
    \/ Retry_Sleep
    \/ Retry_AfterLoop

SpecRetry == InitRetry /\ [][NextRetry]_vars

(***************************************************************************)
(* Properties of the client cache.                                         *)
(***************************************************************************)
Returned(t) == pc[t] = "idle" /\ ret[t].kind = "value"

\* two dicts hold the same key/value pairs, whatever their insertion orders
SameMapping(c1, c2) == Mapping(c1) = Mapping(c2)

\* C1: under any interleaving of get_or_create calls of several threads (no
\* clear) the constructor has returned an instance at most once per key, so
\* with no raising constructor it has been invoked at most once, and all
\* calls that returned for one key returned the same instance.
C1_SingleConstruction ==
    nClears = 0 =>
        /\ \A k \in Keys : ctorCalls[k] <= 1 + ctorRaises[k]
        /\ \A t1, t2 \in Threads :
              ret[t1].kind = "value" /\ ret[t2].kind = "value"
              /\ ret[t1].key = ret[t2].key
              => ret[t1].inst = ret[t2].inst

\* two threads were inside get_or_create for one key at the same time and
\* both have returned
C1_Witness ==
    /\ nClears = 0
    /\ \E t1, t2 \in Threads :
          /\ t1 # t2
          /\ Returned(t1) /\ Returned(t2)
          /\ ret[t1].key = ret[t2].key
          /\ ret[t1].fresh /\ ~ret[t2].fresh
          /\ ret[t1].calls = 1 /\ ret[t2].calls = 1
          /\ ctorRaises[ret[t1].key] = 0

\* C3: a get_or_create that returns after an earlier call of the same thread
\* returned for the same key, with no clear() since, does not invoke the
\* constructor and returns the instance the earlier call returned.
C3_Memoized ==
    [][\A t \in Threads :
          (pc[t] = "return" /\ pc'[t] = "idle"
           /\ ret[t].kind = "value" /\ ret[t].key = key[t]
           /\ ret[t].epoch = nClears)
          => /\ ret'[t].kind = "value"
             /\ ret'[t].inst = ret[t].inst
             /\ ~ret'[t].fresh
             /\ ctorCalls'[key[t]] = ret[t].calls]_vars

\* a thread has returned from its second call in a row for one key, the
\* first of which constructed the instance
C3_Witness ==
    \E t \in Threads :
        /\ Returned(t) /\ ~ret[t].fresh /\ ret[t].calls = 1
        /\ nClears = 0 /\ nCalls = 2
        /\ \A u \in Threads \ {t} : ret[u].kind = "none" /\ pc[u] = "idle"

\* C4: when the constructor raises, the caller gets that exception, the key
\* is absent from the cache afterwards and the mapping is as before, and the
\* next completed call for that key has had the constructor invoked again.
C4_FailedConstruction ==
    [][\A t \in Threads :
          /\ (pc[t] = "construct" /\ pc'[t] = "unwind")
             => cache' = cache /\ key[t] \notin DOMAIN cache'
          /\ (pc[t] = "unwind" /\ pc'[t] = "idle")
             => /\ ret'[t].kind = "exc" /\ ret'[t].exc = raised[t]
                /\ key[t] \notin DOMAIN cache'
                /\ lock' = 0
          /\ (pc[t] \in {"unwind", "return"} /\ pc'[t] = "idle"
              /\ ret[t].kind = "exc" /\ ret[t].key = key[t])
             => ctorCalls'[key[t]] > ret[t].calls]_vars

\* a call failed and the following call of the same thread for the same key
\* constructed and returned an instance
C4_Witness ==
    \E t \in Threads :
        /\ Returned(t) /\ ret[t].fresh /\ ret[t].calls = 2
        /\ cache[ret[t].key] = ret[t].inst
        /\ nCalls = 2

\* C5: two requests whose configs hold the same pairs in different insertion
\* orders (nested dicts included) have the same key, and calls that returned
\* for them in one cache epoch returned the identical instance.
C5_OrderIndependentKey ==
    \A t1, t2 \in Threads :
        (/\ args[t1].provider = args[t2].provider
         /\ args[t1].service = args[t2].service
         /\ SameMapping(args[t1].config, args[t2].config))
        => /\ (key[t1] # NoKey /\ key[t2] # NoKey) => key[t1] = key[t2]
           /\ (Returned(t1) /\ Returned(t2)
               /\ ret[t1].epoch = nClears /\ ret[t2].epoch = nClears)
              => ret[t1].inst = ret[t2].inst

\* two calls with a nested config in its two insertion orders have returned
C5_Witness ==
    \E t1, t2 \in Threads :
        /\ Returned(t1) /\ Returned(t2)
        /\ args[t1].config = CfgNest1 /\ args[t2].config = CfgNest2
        /\ ret[t1].inst = ret[t2].inst
        /\ ret[t1].epoch = nClears /\ ret[t2].epoch = nClears

\* C6: clear() leaves the cache empty, and a get_or_create that returns after
\* a clear() that followed the thread's earlier return for the same key has
\* invoked a constructor again and returns an instance other than the evicted one.
C6_ClearEvicts ==
    [][\A t \in Threads :
          /\ (pc[t] = "clear" /\ pc'[t] = "idle") => DOMAIN cache' = {}
          /\ (pc[t] = "return" /\ pc'[t] = "idle"
              /\ ret[t].kind = "value" /\ ret[t].key = key[t]
              /\ ret[t].epoch < nClears)
             => /\ ret'[t].inst # ret[t].inst
                /\ ctorCalls'[key[t]] > ret[t].calls]_vars

\* get_or_create, clear, get_or_create for one key by one thread: the second
\* instance is a new one
C6_Witness ==
    \E t \in Threads :
        /\ Returned(t) /\ ret[t].fresh /\ ret[t].epoch = 1
        /\ ret[t].calls = 2 /\ ret[t].inst = 2 /\ nCalls = 2

(***************************************************************************)
(* Properties of config resolution.                                        *)
(***************************************************************************)
\* the credentials path the environment supplies is unset or names a file
\* that exists: the environment sets nothing that fails on its own
EnvCredentialsUsable ==
    LET c == env["GOOGLE_APPLICATION_CREDENTIALS"]
    IN  ~Truthy(c) \/ PathExists(c.s)

EnvMappedFields(cloud_provider) ==
    IF cloud_provider = "aws"
    THEN {"aws_access_key_id", "aws_secret_access_key", "region_name"}
    ELSE {"project_id", "credentials_path"}

\* what the environment holds for a field: the one mapped variable, None
\* when it is unset; for project_id GOOGLE_CLOUD_PROJECT when it is set and
\* non-empty, else GCLOUD_PROJECT
EnvValueOf(field) ==
    CASE field = "aws_access_key_id" -> env["AWS_ACCESS_KEY_ID"]
      [] field = "aws_secret_access_key" -> env["AWS_SECRET_ACCESS_KEY"]
      [] field = "region_name" -> env["AWS_DEFAULT_REGION"]
      [] field = "credentials_path" -> env["GOOGLE_APPLICATION_CREDENTIALS"]
      [] field = "project_id" ->
            IF env["GOOGLE_CLOUD_PROJECT"].t = "str" /\ env["GOOGLE_CLOUD_PROJECT"].s # ""
            THEN env["GOOGLE_CLOUD_PROJECT"] ELSE env["GCLOUD_PROJECT"]

\* the raw config gives the field a non-empty value
ExplicitNonEmpty(field) ==
    LET v == Get(cfgIn.config, field) IN v.t = "str" /\ v.s # ""

\* C11: in every resolved config each env-mapped field holds the explicit
\* raw-config value when that is present and non-empty, otherwise the value
\* of its environment variable, None when that is unset; the environment
\* never replaces an explicit non-empty value.
C11_ResolutionPrecedence ==
    (cfgOut.kind = "ok" /\ cfgIn.provider \in {"aws", "gcp"}) =>
        \A f \in EnvMappedFields(cfgIn.provider) :
            Get(cfgOut.obj.fields, f) =
                IF ExplicitNonEmpty(f) THEN Get(cfgIn.config, f) ELSE EnvValueOf(f)

\* an AWS config resolved with the explicit region kept although
\* AWS_DEFAULT_REGION is set, the access key taken from the environment and
\* the secret key left None
C11_Witness ==
    /\ cfgIn.provider = "aws" /\ cfgOut.kind = "ok"
    /\ cfgIn.config = <<Item("region_name", Str("us-east-1"))>>
    /\ env["AWS_DEFAULT_REGION"] = Str("eu-west-1")
    /\ env["AWS_ACCESS_KEY_ID"] = Str("env_key")
    /\ Get(cfgOut.obj.fields, "region_name") = Str("us-east-1")
    /\ Get(cfgOut.obj.fields, "aws_access_key_id") = Str("env_key")
    /\ Get(cfgOut.obj.fields, "aws_secret_access_key") = None

\* the credential-file path a GCP resolution ends up with: the explicit one
\* when non-empty, else GOOGLE_APPLICATION_CREDENTIALS
PathInEffect ==
    IF Truthy(Get(cfgIn.config, "credentials_path"))
    THEN Get(cfgIn.config, "credentials_path")
    ELSE env["GOOGLE_APPLICATION_CREDENTIALS"]

MissingPathSet ==
    /\ cfgIn.provider = "gcp" /\ cfgOut.kind # "none"
    /\ Truthy(PathInEffect) /\ ~(PathInEffect.s \in ExistingFiles)

\* C12 as claimed: a GCP resolution whose credential-file path is set and
\* does not exist fails, whatever the other fields are, a supplied
\* credentials object included.
C12_MissingPathAlwaysFails ==
    MissingPathSet => cfgOut.kind = "exc"

\* C12 amended: with a path that is set and does not exist the resolution
\* fails whenever no credentials object is supplied; it can succeed only
\* with a supplied credentials object, which is then kept as given together
\* with the unchecked path.
C12_MissingPathFailsWithoutCredentials ==
    MissingPathSet =>
        /\ Get(cfgIn.config, "credentials").t = "none"
           => cfgOut.kind = "exc" /\ cfgOut.exc = "ValidationError"
        /\ cfgOut.kind = "ok"
           => /\ Get(cfgIn.config, "credentials").t # "none"
              /\ Get(cfgOut.obj.fields, "credentials") = Get(cfgIn.config, "credentials")
              /\ Get(cfgOut.obj.fields, "credentials_path") = PathInEffect

\* a GCP config with a project and a path that does not exist, no
\* credentials object, failed on the credentials file
C12_Witness ==
    /\ cfgIn.provider = "gcp"
    /\ cfgIn.config = <<Item("project_id", Str("p")),
                        Item("credentials_path", Str("/missing.json"))>>
    /\ cfgOut.kind = "exc" /\ cfgOut.msg = "Credentials file not found"

\* C13: a resolved provider config is immutable: the model the caller holds
\* has, at all times, the field values it was returned with.
C13_ConfigImmutable ==
    cfgOut.kind = "ok" => cfgObj = cfgOut.obj

(***************************************************************************)
(* Properties of the universal factory.                                    *)
(***************************************************************************)
FactoryCompletes == fpc # "idle" /\ fpc' = "idle"

\* the (provider, service, config) of a call cannot pass the three checks
Unsupported(a) ==
    \/ a.cloud_provider \notin {"aws", "gcp"}
    \/ a.service_name \notin RegisteredServices
    \/ ValidateConfig(a.cloud_provider, a.config, env).kind # "ok"

\* C2: two universal_factory calls in sequence with the same service name,
\* provider and config return the same instance, the second without running
\* a backend constructor.
C2_FactoryReturnsCached ==
    [][(FactoryCompletes /\ fres.kind = "value" /\ fres.args = fargs
        /\ fres'.kind = "value")
       => fres'.inst = fres.inst /\ ~fres'.ctor]_vars

\* C7 as claimed: an unknown provider fails with UnsupportedProviderError,
\* a known provider with an unknown service with UnsupportedServiceError.
C7_DistinctErrorKinds ==
    fres.kind # "none" =>
        /\ fres.args.cloud_provider \notin {"aws", "gcp"}
           => fres.kind = "exc" /\ fres.exc = "UnsupportedProviderError"
        /\ (fres.args.cloud_provider \in {"aws", "gcp"}
            /\ fres.args.service_name \notin RegisteredServices)
           => fres.kind = "exc" /\ fres.exc = "UnsupportedServiceError"

\* C7 amended: both cases fail with ValueError; an unknown provider with the
\* message "Unsupported cloud provider" whatever the service name is, a known
\* provider with an unknown service with the message "Unsupported service".
C7_ValueErrorByMessage ==
    fres.kind # "none" =>
        /\ fres.args.cloud_provider \notin {"aws", "gcp"}
           => /\ fres.kind = "exc" /\ fres.exc = "ValueError"
              /\ fres.msg = "Unsupported cloud provider"
        /\ (fres.args.cloud_provider \in {"aws", "gcp"}
            /\ fres.args.service_name \notin RegisteredServices)
           => /\ fres.kind = "exc" /\ fres.exc = "ValueError"
              /\ fres.msg = "Unsupported service"

\* a call with an unknown provider and an unknown service has failed
C7_Witness ==
    /\ fpc = "idle" /\ fres.kind = "exc"
    /\ fres.args.cloud_provider = "azure" /\ fres.args.service_name = "database"
    /\ fres.msg = "Unsupported cloud provider"

\* C8: a backend constructor is invoked only in a call whose provider and
\* service are registered and whose config resolved; a call that fails one of
\* the three checks ends in an exception with no constructor invoked, no
\* object created and the client cache as it was.
C8_NoConstructionOnFailure ==
    [][/\ (fctor' /\ ~fctor) => ~Unsupported(fargs)
       /\ (FactoryCompletes /\ Unsupported(fargs))
          => /\ fres'.kind = "exc" /\ ~fres'.ctor
             /\ fres'.stage \in {"provider", "service", "config"}
             /\ cache' = cache /\ nextId' = nextId]_vars

\* a call for a registered pair has failed at config resolution
C8_Witness ==
    /\ fpc = "idle" /\ fres.kind = "exc" /\ fres.stage = "config"
    /\ fres.args.cloud_provider = "gcp" /\ fres.args.service_name = "storage"
    /\ ~fres.ctor

\* C9: for a registered (provider, service) and a raw config that resolves,
\* universal_factory returns an instance of the service's blueprint (the
\* eager remote call of the constructor not failing).
C9_ReturnsBlueprintInstance ==
    (fres.kind # "none" /\ ~Unsupported(fres.args) /\ fres.exc # "ClientError")
    => fres.kind = "value" /\ fres.blueprint = BlueprintOf(fres.args.service_name)

(***************************************************************************)
(* Properties of the backends.                                             *)
(***************************************************************************)
ResolvedConfigClasses == {"AWSConfig", "GCPConfig"}

\* the constructor of the last call reads its config the way a config model
\* is read (C9 is about those that do not)
ReadsConfigModel ==
    bres.cfg \in ResolvedConfigClasses /\ ConfigAccess(bres.provider, bres.cap) = "attr"

\* C14: a backend constructor called with a resolved config returns an
\* instance or fails with the base error of its capability; when
\* sts.get_caller_identity() fails in a constructor that makes this call,
\* the caller gets the capability's base error (IAMError for IAM).
C14_ConstructorNormalizes ==
    (bres.op = "__init__" /\ ReadsConfigModel) =>
        /\ bres.kind = "exc" => bres.exc = BaseError(bres.cap)
        /\ (EagerRemoteCall(bres.provider, bres.cap) /\ bres.outs[1].kind = "client_error")
           => bres.kind = "exc" /\ bres.exc = BaseError(bres.cap)

\* C15: every exception that leaves a backend operation method is a class
\* of the CloudjackError hierarchy, whatever the SDK calls did.
C15_OnlyCloudjackErrors ==
    (bres.kind = "exc" /\ bres.op # "__init__") => bres.exc \in CloudjackErrors

\* the first SDK call of the last operation that raised ClientError, every
\* call before it having answered; 0 when there is none
FirstClientError ==
    IF \E i \in 1..Len(bres.outs) :
          /\ bres.outs[i].kind = "client_error"
          /\ \A j \in 1..(i - 1) : bres.outs[j].kind = "ok"
    THEN CHOOSE i \in 1..Len(bres.outs) :
          /\ bres.outs[i].kind = "client_error"
          /\ \A j \in 1..(i - 1) : bres.outs[j].kind = "ok"
    ELSE 0

\* the capabilities whose module has an _ERROR_MAP, and the operations of
\* theirs that pass their ClientError to it
TableCapabilities == {"storage", "queue", "compute", "dns", "iam", "logging"}
ReportsThroughTable ==
    /\ bres.provider = "aws" /\ bres.op # "__init__"
    /\ bres.cap \in TableCapabilities
    /\ ~(bres.cap = "queue"
         /\ bres.op \in {"send_message", "receive_messages", "delete_message"})

\* the kind the table gives a code, the capability's base error for a code
\* that is not in it
TableKind(cap, code) ==
    IF code \in DOMAIN ErrorMap(cap) THEN ErrorMap(cap)[code] ELSE BaseError(cap)

SecretNotFoundCase ==
    (bres.provider = "aws" /\ bres.cap = "secret_manager" /\ bres.op = "get_secret"
     /\ bres.outs[1] = SdkClientError("ResourceNotFoundException"))
    => bres.kind = "exc" /\ bres.exc = "SecretNotFoundError"

\* C16 as claimed: in every AWS operation that reports through the table a
\* ClientError raises the kind the table maps its code to, the base error
\* of the capability when the code is not in the table; get_secret raises
\* SecretNotFoundError for ResourceNotFoundException.
C16_TableDecidesKind ==
    /\ (ReportsThroughTable /\ FirstClientError # 0)
       => /\ bres.kind = "exc"
          /\ bres.exc = TableKind(bres.cap, bres.outs[FirstClientError].code)
    /\ SecretNotFoundCase

\* write_log's _ensure_stream step met "the stream is already there"
StreamAlreadyThere ==
    /\ bres.cap = "logging" /\ bres.op = "write_log"
    /\ FirstClientError = 1
    /\ bres.outs[1].code = "ResourceAlreadyExistsException"

\* C16 amended: as claimed, except that write_log ignores a
\* ResourceAlreadyExistsException of its create_log_stream step and goes on
\* to put_log_events, whose outcome (by the same table) is then the result.
C16_TableDecidesKindButEnsureStream ==
    /\ (ReportsThroughTable /\ FirstClientError # 0 /\ ~StreamAlreadyThere)
       => /\ bres.kind = "exc"
          /\ bres.exc = TableKind(bres.cap, bres.outs[FirstClientError].code)
    /\ (ReportsThroughTable /\ StreamAlreadyThere)
       => CASE bres.outs[2].kind \in {"ok", "empty"} -> bres.kind = "value"
            [] bres.outs[2].kind = "client_error" ->
                  bres.kind = "exc"
                  /\ bres.exc = TableKind("logging", bres.outs[2].code)
            [] OTHER -> bres.kind = "exc"
    /\ SecretNotFoundCase

\* delete_bucket met NoSuchBucket and raised BucketNotFoundError
C16_Witness ==
    /\ bres.provider = "aws" /\ bres.cap = "storage" /\ bres.op = "delete_bucket"
    /\ bres.outs = <<SdkClientError("NoSuchBucket")>>
    /\ bres.kind = "exc" /\ bres.exc = "BucketNotFoundError"

(***************************************************************************)
(* Properties of the Queue backends.                                       *)
(***************************************************************************)
QueueIdOps == {"delete_queue", "send_message", "receive_messages", "delete_message"}

\* the last call met a queue that does not exist, the SDK working
OnMissingQueue == qres.op \in QueueIdOps /\ qres.missing /\ NoFault(qres.faults)

\* C17: for each of delete_queue, send_message, receive_messages and
\* delete_message called on a queue that does not exist, the AWS and the
\* GCP backend raise the same error kind.
C17_SameKindOnMissingQueue ==
    (OnMissingQueue /\ qmiss.op = qres.op /\ qmiss.provider \in QueueProviders \ {qres.provider})
    => qres.kind = "exc" /\ qres.exc = qmiss.exc

\* C18: the identifier create_queue returned addresses the queue it created:
\* a delete_queue, send_message, receive_messages or delete_message given
\* that identifier names, in its SDK calls, resources create_queue created
\* and no others.
C18_ReturnedIdAddressesQueue ==
    qres.op \in QueueIdOps =>
        \A m \in qmade[qres.provider] :
            qres.id = m.id => qres.targets # {} /\ qres.targets \subseteq m.resources

(***************************************************************************)
(* Properties of ClientCache.__new__.                                      *)
(***************************************************************************)
\* C19: ClientCache() returns the same object on every call, also when the
\* first constructions run concurrently: all the completed calls obtained one
\* object, whose mapping and lock were set when it was returned and are the
\* same ones now (none missing, none replaced later).
C19_OneInstanceOneLock ==
    /\ \A r1, r2 \in obtained : r1.obj = r2.obj
    /\ \A r \in obtained :
          /\ r._cache # 0 /\ r._lock # 0
          /\ heap[r.obj]._cache = r._cache
          /\ heap[r.obj]._lock = r._lock

(***************************************************************************)
(* Properties of the retry wrapper.                                        *)
(***************************************************************************)
\* the wrapper call has ended (returned or raised)
RetryCompleted == rpc = "idle" /\ rres.kind # "none"

\* every invocation so far raised an exception the wrapper retries on
AllRetryable ==
    \A i \in 1..Len(rlog) :
        rlog[i].kind = "exc" /\ Catches(rargs.retryable_exceptions, rlog[i].exc)

\* C20: a function wrapped by retry(max_attempts=n) is invoked at most n times
\* per call of the wrapper; a successful invocation is the last one and its
\* value is what the wrapper returns; and when every attempt raised a
\* retryable exception the function was invoked exactly n times and the
\* wrapper raised the exception object of the n-th invocation.
C20_AtMostNInvocations ==
    /\ Len(rlog) <= rargs.max_attempts
    /\ \A i \in 1..Len(rlog) :
          rlog[i].kind = "value" =>
              /\ i = Len(rlog)
              /\ RetryCompleted
              /\ rres = rlog[i]
    /\ (RetryCompleted /\ rargs.max_attempts >= 1 /\ AllRetryable) =>
          /\ Len(rlog) = rargs.max_attempts
          /\ rres = rlog[rargs.max_attempts]

\* three attempts were allowed, all three raised a retryable exception, and
\* the wrapper re-raised the third one after sleeping twice
C20_Witness ==
    /\ RetryCompleted
    /\ rargs.max_attempts = 3
    /\ Len(rlog) = 3
    /\ AllRetryable
    /\ rres.kind = "exc" /\ rres.exc = rlog[3].exc /\ rres.exc.id = 3
    /\ Len(sleeps) = 2

\* the except clause of the current call does not name the class of exc nor
\* any of its base classes
NotRetryable(exc) == Bases(exc.type) \cap rargs.retryable_exceptions = {}

\* C21: an exception of the wrapped function that is not in
\* retryable_exceptions leaves the wrapper at once, on whichever attempt it
\* occurs: it is the last invocation, it is the outcome of the call, and the
\* only sleeps are the ones between the attempts before it.
C21_NonRetryablePropagatesAtOnce ==
    \A i \in 1..Len(rlog) :
        (rlog[i].kind = "exc" /\ NotRetryable(rlog[i].exc)) =>
            /\ i = Len(rlog)
            /\ RetryCompleted
            /\ rres = rlog[i]
            /\ Len(sleeps) = i - 1

\* the second attempt raised an exception the wrapper does not retry on, after
\* a first attempt that was retried
C21_Witness ==
    /\ RetryCompleted
    /\ Len(rlog) = 2
    /\ rlog[1].kind = "exc" /\ ~NotRetryable(rlog[1].exc)
    /\ rlog[2].kind = "exc" /\ NotRetryable(rlog[2].exc)
    /\ rres = rlog[2]
    /\ Len(sleeps) = 1

RECURSIVE Pow(_, _)
Pow(b, e) == IF e = 0 THEN 1 ELSE b * Pow(b, e - 1)

\* the wrapper has slept once after each attempt but the last one so far, and
\* not at all after the attempt that ended the call
OneSleepBetweenAttempts ==
    /\ rpc = "invoke" => Len(sleeps) = Len(rlog)
    /\ rpc = "sleep" => Len(sleeps) = Len(rlog) - 1
    /\ (RetryCompleted /\ Len(rlog) >= 1) => Len(sleeps) = Len(rlog) - 1

\* C25: the wrapper sleeps exactly once between two consecutive attempts and
\* never after the final attempt; the delay before retry k is
\* min(base_delay * backoff_factor^(k-1), max_delay), so no sleep is longer
\* than max_delay.
C25_SleepsFollowBackoff ==
    /\ OneSleepBetweenAttempts
    /\ \A k \in 1..Len(sleeps) :
          /\ sleeps[k] = Min(rargs.base_delay * Pow(rargs.backoff_factor, k - 1),
                             rargs.max_delay)
          /\ sleeps[k] <= rargs.max_delay

\* C29: every outcome of a call to a retry-wrapped function is a value the
\* wrapped function returned or an exception object it raised, and the
\* wrapped function was invoked at least once, for every value of
\* max_attempts.
C29_OutcomeComesFromFunction ==
    RetryCompleted =>
        /\ Len(rlog) >= 1
        /\ \E i \in 1..Len(rlog) : rres = rlog[i]

(***************************************************************************)
(* Properties of the order of the Pub/Sub calls.                           *)
(***************************************************************************)
\* this step is a call of the GCP Queue method `op`
GcpQueueCall(op) == qres' # qres /\ qres'.provider = "gcp" /\ qres'.op = op

\* C22: GCP delete_queue deletes the subscription before the topic; a NotFound
\* on the subscription is tolerated and the topic deletion is still attempted
\* exactly once; a NotFound on the topic raises QueueNotFoundError; any other
\* API error on the subscription raises QueueError and the topic deletion is
\* not attempted.
C22_DeleteSubscriptionThenTopic ==
    [][ GcpQueueCall("delete_queue") =>
          LET sp == SubPath(qres'.id)
              tp == TopicPath(qres'.id)
              f == qres'.faults
          IN  /\ qres'.calls # <<>> /\ qres'.calls[1] = sp
              /\ f[1] = "none" =>
                    /\ qres'.calls = <<sp, tp>>
                    /\ subs' = subs \ {sp}
                    /\ (f[2] = "none" /\ tp \notin topics) =>
                          qres'.kind = "exc" /\ qres'.exc = "QueueNotFoundError"
                    /\ (f[2] = "none" /\ tp \in topics) =>
                          qres'.kind = "value" /\ topics' = topics \ {tp}
              /\ f[1] = "api" =>
                    /\ qres'.kind = "exc" /\ qres'.exc = "QueueError"
                    /\ qres'.calls = <<sp>>
                    /\ topics' = topics /\ subs' = subs
      ]_vars

\* delete_queue met no subscription, went on to the topic, and the topic was
\* not there either
C22_Witness ==
    /\ qres.provider = "gcp" /\ qres.op = "delete_queue"
    /\ NoFault(qres.faults)
    /\ qres.calls = <<SubPath(qres.id), TopicPath(qres.id)>>
    /\ qres.kind = "exc" /\ qres.exc = "QueueNotFoundError"

\* C30: GCP create_queue creates the topic before the subscription; when the
\* topic already exists it raises QueueAlreadyExistsError without attempting
\* the subscription; when the subscription cannot be created it raises
\* QueueError and the topic it just created stays, so that a following
\* create_queue with the same name raises QueueAlreadyExistsError.
C30_CreateTopicThenSubscription ==
    [][ GcpQueueCall("create_queue") =>
          LET sp == SubPath(qres'.id)
              tp == TopicPath(qres'.id)
              f == qres'.faults
          IN  /\ qres'.calls # <<>> /\ qres'.calls[1] = tp
              /\ (f[1] = "none" /\ tp \in topics) =>
                    /\ qres'.kind = "exc" /\ qres'.exc = "QueueAlreadyExistsError"
                    /\ qres'.calls = <<tp>>
                    /\ topics' = topics /\ subs' = subs
              /\ (f[1] = "none" /\ tp \notin topics) =>
                    /\ qres'.calls = <<tp, sp>>
                    /\ topics' = topics \cup {tp}
                    /\ (f[2] = "api" \/ sp \in subs) =>
                          /\ qres'.kind = "exc" /\ qres'.exc = "QueueError"
                          /\ subs' = subs
                    /\ (f[2] = "none" /\ sp \notin subs) =>
                          /\ qres'.kind = "value" /\ qres'.value = sp
                          /\ subs' = subs \cup {sp}
              /\ ( /\ qres.provider = "gcp" /\ qres.op = "create_queue"
                   /\ qres.id = qres'.id
                   /\ qres.kind = "exc" /\ qres.exc = "QueueError"
                   /\ Len(qres.calls) = 2
                   /\ f[1] = "none" ) =>
                    qres'.kind = "exc" /\ qres'.exc = "QueueAlreadyExistsError"
      ]_vars

\* create_queue made the topic, failed on the subscription, and the topic is
\* still there without a subscription
C30_Witness ==
    /\ qres.provider = "gcp" /\ qres.op = "create_queue"
    /\ qres.kind = "exc" /\ qres.exc = "QueueError"
    /\ qres.calls = <<TopicPath(qres.id), SubPath(qres.id)>>
    /\ TopicPath(qres.id) \in topics
    /\ SubPath(qres.id) \notin subs

(***************************************************************************)
(* Properties of the order of the checks in universal_factory.             *)
(***************************************************************************)
KnownProvider(a) == a.cloud_provider \in {"aws", "gcp"}
KnownService(a) == a.service_name \in RegisteredServices

\* C23: universal_factory checks the provider, then the service, then
\* resolves the config, then constructs: the service check is reached only
\* with a known provider, config resolution only with a known provider and
\* service, construction only with a config that resolved; an unknown
\* provider fails at the provider check whatever the service and config are,
\* and a known provider with an unknown service fails at the service check
\* even when the raw config is invalid.
C23_ChecksInFixedOrder ==
    /\ fpc = "service" => KnownProvider(fargs)
    /\ fpc \in {"config", "construct"} => KnownProvider(fargs) /\ KnownService(fargs)
    /\ fpc = "construct" =>
          ValidateConfig(fargs.cloud_provider, fargs.config, env).kind = "ok"
    /\ fres.kind # "none" =>
          /\ ~KnownProvider(fres.args) =>
                /\ fres.kind = "exc" /\ fres.stage = "provider"
                /\ fres.msg = "Unsupported cloud provider"
          /\ (KnownProvider(fres.args) /\ ~KnownService(fres.args)) =>
                /\ fres.kind = "exc" /\ fres.stage = "service"
                /\ fres.msg = "Unsupported service"

\* a call for a known provider, an unknown service and a raw config that does
\* not validate has failed at the service check
C23_Witness ==
    /\ fpc = "idle" /\ fres.kind = "exc" /\ fres.stage = "service"
    /\ fres.args.cloud_provider = "gcp" /\ fres.args.service_name = "database"
    /\ fres.args.config = <<Item("bogus", Str("x"))>>
    /\ ValidateConfig("gcp", fres.args.config, env).kind # "ok"

(***************************************************************************)
(* Properties of the independence of the cache keys.                       *)
(***************************************************************************)
\* two requests name the same (provider, service, config) triple
SameTriple(r1, r2) ==
    /\ r1.provider = r2.provider
    /\ r1.service = r2.service
    /\ SameMapping(r1.config, r2.config)

\* the entry of key k: 0 when the key is not cached
EntryOf(c, k) == IF k \in DOMAIN c THEN c[k] ELSE 0

\* thread t takes a step of a get_or_create call for key k
ActsOn(t, k) == pc'[t] # pc[t] /\ pc[t] \notin {"idle", "clear"} /\ key[t] = k

\* C24: get_or_create for a key k invokes only the constructor supplied for
\* k and leaves the entries of all other keys unchanged; it never returns an
\* instance cached under a different (provider, service, config) triple:
\* two returned calls for different triples hold different instances.
C24_KeysIndependent ==
    [][ /\ \A k \in Keys :
              (nClears' = nClears
               /\ (EntryOf(cache', k) # EntryOf(cache, k) \/ ctorCalls'[k] # ctorCalls[k]))
              => \E t \in Threads : ActsOn(t, k)
        /\ \A t1, t2 \in Threads :
              (Returned(t1)' /\ Returned(t2)' /\ ~SameTriple(args'[t1], args'[t2]))
              => ret'[t1].inst # ret'[t2].inst
      ]_vars

(***************************************************************************)
(* Properties of the progress of the cache calls.                          *)
(***************************************************************************)
\* C26: under fair scheduling, with constructors that terminate, every
\* get_or_create call eventually completes, also when a constructor calls
\* get_or_create for a different key on the cache while it runs.
C26_EveryCallCompletes ==
    \A t \in Threads : (pc[t] # "idle") ~> (pc[t] = "idle")

\* thread t is inside the with-block of get_or_create or clear
InCriticalSection(t) == pc[t] \in {"lookup", "construct", "unwind", "return", "clear"}

\* C27: the cache lock is free whenever no get_or_create or clear call is in
\* progress; every call releases it on completion, on a normal return and
\* when the constructor raised: the lock is held exactly by a thread that is
\* inside a with-block.
C27_LockFreeWhenIdle ==
    /\ (\A t \in Threads : pc[t] = "idle") => lock = 0
    /\ \A t \in Threads : lock = t <=> InCriticalSection(t)

\* a constructor has raised in a call that completed, no call is in
\* progress, and the lock is free
C27_Witness ==
    /\ \A t \in Threads : pc[t] = "idle"
    /\ \E t \in Threads :
          ret[t].kind = "exc" /\ ret[t].exc \in CtorExceptions /\ ret[t].fresh
    /\ lock = 0

(***************************************************************************)
(* Properties of the resolved GCP project.                                 *)
(***************************************************************************)
\* C28: after every successful GCP config resolution the resolved project_id
\* is a non-empty string, whatever the raw-config value is and whether
\* GOOGLE_CLOUD_PROJECT and GCLOUD_PROJECT are unset, empty or non-empty.
C28_ResolvedProjectNonEmpty ==
    (cfgIn.provider = "gcp" /\ cfgOut.kind = "ok") =>
        LET p == Get(cfgOut.obj.fields, "project_id")
        IN  p.t = "str" /\ p.s # ""

====
